---- MODULE Spec2Model ----
(***************************************************************************)
(* Tenant-scoped RBAC of zoltag/auth/dependencies.py: the permission       *)
(* resolver with alias expansion, its TTL cache and invalidation, the      *)
(* invitation auto-claimer and the request guards built on them.           *)
(***************************************************************************)
EXTENDS FiniteSets, Integers, Sequences, TLC

VARIABLES
    \* _expand_permissions, one loop pass at a time
    allowed,      \* parameter `allowed`
    denied,       \* parameter `denied`
    expanded,     \* local `expanded`
    changed,      \* local `changed`
    epc,          \* position in _expand_permissions: "idle", "loop" or "done"
    \* the process and its database
    now,                \* the clock read by time.time() and datetime.utcnow()
    profiles,           \* user_profiles: supabase_uid -> row
    tenant_roles,       \* tenant_roles: role id -> row
    role_permissions,   \* tenant_role_permissions: role id -> set of <<permission_key, effect>>
    memberships,        \* user_tenants: set of rows, unique on (supabase_uid, tenant_id)
    invitations,        \* invitations: sequence of rows in creation order
    cache,              \* _tenant_permission_cache: <<tenant, user>> -> <<expiry, permissions>>
    db_changes,         \* number of changes made by the admin layer so far
    resp,               \* outcome of the request handled last
    \* the token verifier's key set (auth/jwt.py) and the key source it fetches from
    jwks,               \* _jwks_cache, _jwks_cache_time and the lru_cache of get_jwks
    jwks_endpoint,      \* the JWKS endpoint: whether it answers, and the keys it serves
    \* the tenants table and the admin router that updates it
    tenants,            \* tenants: set of rows
    tenant_req,         \* the update_tenant request answered last: body, and the rows it found
    \* requests whose steps interleave
    inflight            \* call id -> what a call in flight has read and is about to write

expandVars == <<allowed, denied, expanded, changed, epc>>
dbVars == <<profiles, tenant_roles, role_permissions, memberships, invitations>>
jwksVars == <<jwks, jwks_endpoint>>
tenantVars == <<tenants, tenant_req>>
sysVars == <<now, profiles, tenant_roles, role_permissions, memberships, invitations,
             cache, db_changes, resp, jwks, jwks_endpoint, tenants, tenant_req, inflight>>

vars == <<allowed, denied, expanded, changed, epc, now, profiles, tenant_roles,
          role_permissions, memberships, invitations, cache, db_changes, resp,
          jwks, jwks_endpoint, tenants, tenant_req, inflight>>

\* None for identifiers and strings; NONE for timestamps
NULL == "NULL"
NONE == 0 - 1

(***************************************************************************)
(* Permission keys and the compatibility alias table.                      *)
(***************************************************************************)
WriteCanonicalKeys == {"image.rate", "image.tag", "image.note.edit", "image.variant.manage"}

PermissionKeys ==
    {"assets.read", "assets.write", "keywords.read", "keywords.write", "image.view"}
        \cup WriteCanonicalKeys

\* Faulty variant: the canonical read key also implies the broad write alias
PERMISSION_IMPLICATIONS_ViewImpliesWrite(permission_key) ==
    CASE permission_key = "assets.read"  -> {"image.view"}
      [] permission_key = "assets.write" -> WriteCanonicalKeys
      [] permission_key = "image.view"   -> {"assets.read", "assets.write"}
      [] OTHER                           -> {}

\* Faulty variant: assets.write lacks one of its canonical keys
PERMISSION_IMPLICATIONS_WriteLacksVariant(permission_key) ==
    CASE permission_key = "assets.read"  -> {"image.view"}
      [] permission_key = "assets.write" -> {"image.rate", "image.tag", "image.note.edit"}
      [] permission_key = "image.view"   -> {"assets.read"}
      [] OTHER                           -> {}

\* PERMISSION_IMPLICATIONS.get(permission_key) or set()
PERMISSION_IMPLICATIONS(permission_key) ==
    CASE permission_key = "assets.read"  -> {"image.view"}
      [] permission_key = "assets.write" -> WriteCanonicalKeys
      [] permission_key = "image.view"   -> {"assets.read"}
      [] OTHER                           -> {}

\* One pass of the `while changed` loop: the for loop walks a snapshot of
\* `expanded` and adds every implied key that is neither denied nor present.
ExpandPass(exp, den) ==
    exp \cup {implied_key \in UNION {PERMISSION_IMPLICATIONS(k) : k \in exp} :
                 implied_key \notin den}

\* Faulty variant: the flag is raised for an implied key that is already present
PassChanged_IgnoresPresent(exp, den) ==
    \E permission_key \in exp :
        \E implied_key \in PERMISSION_IMPLICATIONS(permission_key) : implied_key \notin den

\* `changed` after a pass: raised when a key is added, that is for an implied
\* key that is neither denied nor in `expanded`
PassChanged(exp, den) ==
    \E permission_key \in exp :
        \E implied_key \in PERMISSION_IMPLICATIONS(permission_key) :
            ~(implied_key \in den \/ implied_key \in exp)

\* Faulty variant: the denied keys are not subtracted at the end
ExpandResult_NoSubtract(exp, den) == exp

\* return expanded - denied
ExpandResult(exp, den) == exp \ den

RECURSIVE ExpandLoop(_, _)
ExpandLoop(exp, den) ==
    LET nxt == ExpandPass(exp, den)
    IN  IF nxt = exp THEN exp ELSE ExpandLoop(nxt, den)

_expand_permissions(alw, den) == ExpandResult(ExpandLoop(alw, den), den)

(***************************************************************************)
(* Strings the code normalises (emails, role keys) are sequences of        *)
(* characters.                                                             *)
(***************************************************************************)
\* str.lower(), on the letters the model uses
LowerChar(c) ==
    CASE c = "A" -> "a" [] c = "B" -> "b" [] c = "D" -> "d" [] c = "E" -> "e"
      [] c = "L" -> "l" [] c = "O" -> "o" [] c = "U" -> "u" [] c = "X" -> "x"
      [] OTHER -> c

Lower(s) == [i \in 1..Len(s) |-> LowerChar(s[i])]

RECURSIVE LStrip(_)
LStrip(s) == IF s # <<>> /\ Head(s) = " " THEN LStrip(Tail(s)) ELSE s

RECURSIVE RStrip(_)
RStrip(s) == IF s # <<>> /\ s[Len(s)] = " " THEN RStrip(SubSeq(s, 1, Len(s) - 1)) ELSE s

\* str.strip()
Strip(s) == RStrip(LStrip(s))

\* Python's `a or b` on strings: the empty string is falsy
StrOr(a, b) == IF a # <<>> THEN a ELSE b

USER == <<"u", "s", "e", "r">>
EDITOR == <<"e", "d", "i", "t", "o", "r">>

(***************************************************************************)
(* The rows the model runs on.                                             *)
(***************************************************************************)
Users == {"u1", "u2"}
Tenants == {"t1", "t2"}
RoleIds == {"r1", "r2", "r3"}

\* tenants: id, identifier, key_prefix
TenantRows ==
    { [id |-> "t1", identifier |-> "acme", key_prefix |-> "acme-k"],
      [id |-> "t2", identifier |-> "beta", key_prefix |-> "beta-k"] }

\* a tenants row as create_tenant leaves it: the three references and two of
\* the fields update_tenant may write
TenantAsCreated(row) ==
    [id |-> row.id, identifier |-> row.identifier, key_prefix |-> row.key_prefix,
     name |-> "Name", settings |-> "{}"]

\* user_profiles.email
UserEmail(u) ==
    IF u = "u1" THEN <<" ", "A", "l", "@", "X">> ELSE <<"b", "o", "@", "x">>

\* tenant_roles.tenant_id and role_key of the seeded roles
RoleTenant(r) == IF r = "r3" THEN "t2" ELSE "t1"
RoleKey(r) == IF r = "r2" THEN USER ELSE EDITOR

AllowRows(keys) == {<<k, "allow">> : k \in keys}
DenyRows(keys) == {<<k, "deny">> : k \in keys}

\* ROLE_MAPPINGS of the seeding migration, per role_key
ROLE_MAPPINGS(role_key) ==
    IF role_key = USER
    THEN AllowRows({"assets.read", "keywords.read"})
    ELSE AllowRows({"assets.read", "assets.write", "keywords.read", "keywords.write"})

(***************************************************************************)
(* Permission resolver and its cache.                                      *)
(***************************************************************************)
RBAC_PERMISSION_CACHE_TTL_SECONDS == 30

_permission_cache_key(tenant_id, supabase_uid) == <<tenant_id, supabase_uid>>

\* Faulty variant: the tenant filter is ignored
InvalidateKeeps_UserOnly(key, target_user, target_tenant) ==
    target_user # NULL /\ key[2] # target_user

\* The filter of invalidate_tenant_permission_cache's loop: the keys it keeps are
\* those it `continue`s on.
InvalidateKeeps(key, target_user, target_tenant) ==
    \/ target_user # NULL /\ key[2] # target_user
    \/ target_tenant # NULL /\ key[1] # target_tenant

invalidate_tenant_permission_cache(c, supabase_uid, tenant_id) ==
    IF supabase_uid = NULL /\ tenant_id = NULL
    THEN <<>>
    ELSE LET keep == {key \in DOMAIN c : InvalidateKeeps(key, supabase_uid, tenant_id)}
         IN  [key \in keep |-> c[key]]

\* Faulty variant: the query does not scope the role to the membership's tenant
RoleRowsQuery_AnyTenant(roles, perms, role_id, tenant_id) ==
    IF role_id \in DOMAIN roles /\ roles[role_id].is_active THEN perms[role_id] ELSE {}

\* The rows the joined query returns for a role id and the membership's tenant.
RoleRowsQuery(roles, perms, role_id, tenant_id) ==
    IF /\ role_id \in DOMAIN roles
       /\ roles[role_id].tenant_id = tenant_id
       /\ roles[role_id].is_active
    THEN perms[role_id]
    ELSE {}

_load_permissions_from_role_mapping(roles, perms, membership) ==
    LET role_id == membership.tenant_role_id
        rows == RoleRowsQuery(roles, perms, role_id, membership.tenant_id)
    IN  IF role_id = NULL THEN {}
        ELSE IF rows = {} THEN {}
        ELSE _expand_permissions({row[1] : row \in {r \in rows : r[2] = "allow"}},
                                 {row[1] : row \in {r \in rows : r[2] = "deny"}})

\* Faulty variant: an entry still counts at the second it expires
CacheEntryLive_Inclusive(c, cache_key, t) == cache_key \in DOMAIN c /\ c[cache_key][1] >= t

\* `cached and cached[0] > now`
CacheEntryLive(c, cache_key, t) == cache_key \in DOMAIN c /\ c[cache_key][1] > t

\* get_effective_membership_permissions: the set returned, whether it came from
\* the cache, and the cache afterwards.
get_effective_membership_permissions(c, t, roles, perms, membership) ==
    LET cache_key == _permission_cache_key(membership.tenant_id, membership.supabase_uid)
    IN  IF CacheEntryLive(c, cache_key, t)
        THEN [permissions |-> c[cache_key][2], hit |-> TRUE, cache |-> c]
        ELSE LET permissions == _load_permissions_from_role_mapping(roles, perms, membership)
             IN  [permissions |-> permissions, hit |-> FALSE,
                  cache |-> (cache_key :> <<t + RBAC_PERMISSION_CACHE_TTL_SECONDS, permissions>>)
                                @@ c]

(***************************************************************************)
(* Tenant resolver.                                                        *)
(***************************************************************************)
\* tenant_reference_filter(TenantModel, tenant_ref): id, identifier or key_prefix
tenant_reference_filter(row, tenant_ref) ==
    row.id = tenant_ref \/ row.identifier = tenant_ref \/ row.key_prefix = tenant_ref

\* tenant_column_filter_for_values(UserTenant, value)
tenant_column_filter_for_values(row, value) == row.tenant_id = value

_resolve_tenant_scope(tenant_ref) ==
    LET rows == {row \in tenants : tenant_reference_filter(row, tenant_ref)}
    IN  IF rows = {} THEN NULL ELSE (CHOOSE row \in rows : TRUE).id

(***************************************************************************)
(* Invitation auto-claimer.                                                *)
(***************************************************************************)
get_tenant_role_id_by_key(roles, tenant_id, role_key) ==
    LET normalized_key == Lower(Strip(role_key))
        rows == {r \in DOMAIN roles :
                    roles[r].tenant_id = tenant_id /\ roles[r].role_key = normalized_key}
    IN  IF normalized_key = <<>> THEN NULL
        ELSE IF rows = {} THEN NULL
        ELSE CHOOSE r \in rows : TRUE

\* Faulty variant: the stored email is compared as it is
InvitationClaimable_StoredCase(invitation, normalized_email, t) ==
    /\ invitation.email = normalized_email
    /\ invitation.accepted_at = NONE
    /\ invitation.expires_at > t

\* Faulty variant: an invitation still counts at the second it expires
InvitationClaimable_AtExpiry(invitation, normalized_email, t) ==
    /\ Lower(invitation.email) = normalized_email
    /\ invitation.accepted_at = NONE
    /\ invitation.expires_at >= t

\* Faulty variant: accepted invitations are not filtered out
InvitationClaimable_IgnoresAccepted(invitation, normalized_email, t) ==
    /\ Lower(invitation.email) = normalized_email
    /\ invitation.expires_at > t

\* The filter of the claimer's query
InvitationClaimable(invitation, normalized_email, t) ==
    /\ Lower(invitation.email) = normalized_email
    /\ invitation.accepted_at = NONE
    /\ invitation.expires_at > t

\* Faulty variant: the matching rows are processed newest first
RECURSIVE Ascending_NewestFirst(_)
Ascending_NewestFirst(idxs) ==
    IF idxs = {} THEN <<>>
    ELSE LET first == CHOOSE i \in idxs : \A j \in idxs : i >= j
         IN  <<first>> \o Ascending_NewestFirst(idxs \ {first})

\* order_by(created_at.asc()): the indexes of the matching rows, oldest first
RECURSIVE Ascending(_)
Ascending(idxs) ==
    IF idxs = {} THEN <<>>
    ELSE LET first == CHOOSE i \in idxs : \A j \in idxs : i <= j
         IN  <<first>> \o Ascending(idxs \ {first})

\* Faulty variant: a new row takes the invitation's role as it is stored
ClaimedMembership_RawRole(found, invitation, tenant_role_id, supabase_uid, t) ==
    IF found = {}
    THEN [supabase_uid |-> supabase_uid, tenant_id |-> invitation.tenant_id,
          tenant_role_id |-> tenant_role_id, role |-> invitation.role,
          invited_by |-> invitation.invited_by, invited_at |-> invitation.created_at,
          accepted_at |-> t]
    ELSE LET membership == CHOOSE m \in found : TRUE
         IN  [membership EXCEPT
                 !.tenant_role_id = tenant_role_id,
                 !.role = invitation.role,
                 !.accepted_at = IF membership.accepted_at # NONE THEN membership.accepted_at
                                 ELSE t]

\* Faulty variant: an existing row keeps its own role and role link
ClaimedMembership_KeepsRole(found, invitation, tenant_role_id, supabase_uid, t) ==
    IF found = {}
    THEN [supabase_uid |-> supabase_uid, tenant_id |-> invitation.tenant_id,
          tenant_role_id |-> tenant_role_id,
          role |-> StrOr(Lower(Strip(StrOr(invitation.role, USER))), USER),
          invited_by |-> invitation.invited_by, invited_at |-> invitation.created_at,
          accepted_at |-> t]
    ELSE LET membership == CHOOSE m \in found : TRUE
         IN  [membership EXCEPT
                 !.accepted_at = IF membership.accepted_at # NONE THEN membership.accepted_at
                                 ELSE t]

\* Faulty variant: an existing row takes inviter and dates from the invitation
ClaimedMembership_Overwrites(found, invitation, tenant_role_id, supabase_uid, t) ==
    IF found = {}
    THEN [supabase_uid |-> supabase_uid, tenant_id |-> invitation.tenant_id,
          tenant_role_id |-> tenant_role_id,
          role |-> StrOr(Lower(Strip(StrOr(invitation.role, USER))), USER),
          invited_by |-> invitation.invited_by, invited_at |-> invitation.created_at,
          accepted_at |-> t]
    ELSE LET membership == CHOOSE m \in found : TRUE
         IN  [membership EXCEPT
                 !.tenant_role_id = tenant_role_id,
                 !.role = StrOr(Lower(Strip(StrOr(invitation.role, StrOr(membership.role, USER)))), USER),
                 !.invited_by = invitation.invited_by,
                 !.invited_at = invitation.created_at,
                 !.accepted_at = t]

\* The membership row written for one invitation: a new row when `found` is
\* empty, the existing row updated otherwise.
ClaimedMembership(found, invitation, tenant_role_id, supabase_uid, t) ==
    IF found = {}
    THEN [supabase_uid |-> supabase_uid,
          tenant_id |-> invitation.tenant_id,
          tenant_role_id |-> tenant_role_id,
          role |-> StrOr(Lower(Strip(StrOr(invitation.role, USER))), USER),
          invited_by |-> invitation.invited_by,
          invited_at |-> invitation.created_at,
          accepted_at |-> t]
    ELSE LET membership == CHOOSE m \in found : TRUE
         IN  [membership EXCEPT
                 !.tenant_role_id = tenant_role_id,
                 !.role = StrOr(Lower(Strip(StrOr(invitation.role, StrOr(membership.role, USER)))), USER),
                 !.invited_by = IF membership.invited_by # NULL THEN membership.invited_by
                                ELSE invitation.invited_by,
                 !.invited_at = IF membership.invited_at # NONE THEN membership.invited_at
                                ELSE invitation.created_at,
                 !.accepted_at = IF membership.accepted_at # NONE THEN membership.accepted_at
                                 ELSE t]

\* The `for invitation in invitations` loop over the indexes `todo`
RECURSIVE ClaimLoop(_, _, _, _, _, _, _)
ClaimLoop(todo, roles, mems, invs, changed_tenant_ids, supabase_uid, t) ==
    IF todo = <<>>
    THEN [memberships |-> mems, invitations |-> invs, changed_tenant_ids |-> changed_tenant_ids]
    ELSE LET invitation == invs[Head(todo)]
             tenant_role_id == get_tenant_role_id_by_key(roles, invitation.tenant_id, invitation.role)
             found == {m \in mems : m.supabase_uid = supabase_uid
                                    /\ m.tenant_id = invitation.tenant_id}
             written == ClaimedMembership(found, invitation, tenant_role_id, supabase_uid, t)
         IN  ClaimLoop(Tail(todo), roles,
                       (mems \ found) \cup {written},
                       [invs EXCEPT ![Head(todo)].accepted_at = t],
                       changed_tenant_ids \cup {invitation.tenant_id},
                       supabase_uid, t)

\* claim_pending_invitations_for_user: the changed tenant ids and the rows as the
\* session holds them afterwards.
claim_pending_invitations_for_user(profs, roles, mems, invs, supabase_uid, t) ==
    LET normalized_email == Lower(Strip(profs[supabase_uid].email))
        matching == {i \in 1..Len(invs) : InvitationClaimable(invs[i], normalized_email, t)}
        unchanged == [changed_tenant_ids |-> {}, profiles |-> profs,
                      memberships |-> mems, invitations |-> invs]
    IN  IF normalized_email = <<>> THEN unchanged
        ELSE IF matching = {} THEN unchanged
        ELSE LET done == ClaimLoop(Ascending(matching), roles, mems, invs, {}, supabase_uid, t)
             IN  [changed_tenant_ids |-> done.changed_tenant_ids,
                  profiles |-> IF done.changed_tenant_ids # {} /\ ~profs[supabase_uid].is_active
                               THEN [profs EXCEPT ![supabase_uid].is_active = TRUE]
                               ELSE profs,
                  memberships |-> done.memberships,
                  invitations |-> done.invitations]

(***************************************************************************)
(* Authentication.                                                         *)
(***************************************************************************)
Tokens == {"tok-u1", "tok-u2", "tok-ghost", "tok-bad", "tok-u1-k2"}

NoHeader == [present |-> FALSE, scheme |-> "", token |-> ""]
Bearer(token) == [present |-> TRUE, scheme |-> "Bearer ", token |-> token]
AuthHeaders ==
    {NoHeader, [present |-> TRUE, scheme |-> "Basic ", token |-> "tok-u1"]}
        \cup {Bearer(token) : token \in Tokens \ {"tok-u1-k2"}}

\* the `sub` claim of a token
TokenSub(token) ==
    CASE token = "tok-u1" -> "u1"
      [] token = "tok-u1-k2" -> "u1"
      [] token = "tok-u2" -> "u2"
      [] token = "tok-ghost" -> "ghost"
      [] OTHER -> NULL

\* the `kid` header of a token: the signing key; tok-bad is expired or carries
\* another audience, whatever its key
TokenKid(token) == IF token = "tok-u1-k2" THEN "k2" ELSE "k1"

\* `timedelta(hours=1)` of get_jwks
JWKS_MAX_AGE_SECONDS == 3600

\* jwt.py at import: `_jwks_cache = {}`, `_jwks_cache_time = datetime.min`, and
\* nothing memoised by the lru_cache of get_jwks
JwksAtImport == [cache |-> {}, cache_time |-> NONE, memo |-> <<>>]

\* The body of get_jwks, run when the lru_cache holds no result
get_jwks_body(k, endpoint, t) ==
    IF k.cache # {} /\ k.cache_time # NONE /\ t - k.cache_time < JWKS_MAX_AGE_SECONDS
    THEN [raised |-> FALSE, keys |-> k.cache, jwks |-> k, requests |-> 0]
    ELSE IF endpoint.reachable
    THEN [raised |-> FALSE, keys |-> endpoint.keys,
          jwks |-> [k EXCEPT !.cache = endpoint.keys, !.cache_time = t], requests |-> 1]
    ELSE [raised |-> TRUE, keys |-> {}, jwks |-> k, requests |-> 1]

\* What lru_cache(maxsize=1) does with the outcome of the body: a returned value
\* is memoised, an exception is not
LruStore(got) ==
    IF got.raised THEN got ELSE [got EXCEPT !.jwks.memo = <<got.keys>>]

\* @lru_cache(maxsize=1) get_jwks(): the memoised result if there is one
get_jwks(k, endpoint, t) ==
    IF k.memo # <<>>
    THEN [raised |-> FALSE, keys |-> k.memo[1], jwks |-> k, requests |-> 0]
    ELSE LruStore(get_jwks_body(k, endpoint, t))

\* jwt.decode under the key set: signature by a key of the set, expiry, audience
JwtDecodes(token, keys) == TokenSub(token) # NULL /\ TokenKid(token) \in keys

\* Faulty variant: without a key set the token is decoded unverified
VerifyWith_FailsOpen(token, got) ==
    IF ~got.raised /\ ~JwtDecodes(token, got.keys)
    THEN [raised |-> TRUE, sub |-> NULL, jwks |-> got.jwks, requests |-> got.requests]
    ELSE [raised |-> TokenSub(token) = NULL, sub |-> TokenSub(token), jwks |-> got.jwks,
          requests |-> got.requests]

\* verify_supabase_jwt: the decoded subject or JWTError, the key state after,
\* and the number of requests sent to the JWKS endpoint
VerifyWith(token, got) ==
    IF got.raised \/ ~JwtDecodes(token, got.keys)
    THEN [raised |-> TRUE, sub |-> NULL, jwks |-> got.jwks, requests |-> got.requests]
    ELSE [raised |-> FALSE, sub |-> TokenSub(token), jwks |-> got.jwks,
          requests |-> got.requests]

verify_supabase_jwt(token, k, endpoint, t) == VerifyWith(token, get_jwks(k, endpoint, t))

\* clear_jwks_cache: the two globals are reset; the lru_cache is not
clear_jwks_cache(k) == [k EXCEPT !.cache = {}, !.cache_time = NONE]

\* get_supabase_uid_from_token: the `sub` claim of a token that verifies
get_supabase_uid_from_token(token) ==
    LET decoded == verify_supabase_jwt(token, jwks, jwks_endpoint, now)
    IN  IF decoded.raised THEN "JWTError" ELSE decoded.sub

\* the key state a request with this header leaves: the verifier runs only for a
\* Bearer header
JwksAfter(authorization) ==
    IF authorization.present /\ authorization.scheme = "Bearer "
    THEN verify_supabase_jwt(authorization.token, jwks, jwks_endpoint, now).jwks
    ELSE jwks

\* the number of requests to the JWKS endpoint a request with this header makes
JwksRequests(authorization) ==
    IF authorization.present /\ authorization.scheme = "Bearer "
    THEN verify_supabase_jwt(authorization.token, jwks, jwks_endpoint, now).requests
    ELSE 0

Failure(status_code, detail) == [status |-> status_code, detail |-> detail, user |-> NULL]

\* Faulty variant: the scheme of the header is not looked at
_resolve_authenticated_user_AnyScheme(authorization, profs) ==
    IF ~authorization.present
    THEN Failure(401, <<"Authorization header required", "">>)
    ELSE LET supabase_uid == get_supabase_uid_from_token(authorization.token)
         IN  IF supabase_uid = "JWTError"
             THEN Failure(401, <<"Invalid or expired token", "">>)
             ELSE IF supabase_uid \notin DOMAIN profs
             THEN Failure(404, <<"User profile not found. Please complete registration.", "">>)
             ELSE [status |-> 200, detail |-> <<"", "">>, user |-> supabase_uid]

_resolve_authenticated_user(authorization, profs) ==
    IF ~authorization.present
    THEN Failure(401, <<"Authorization header required", "">>)
    ELSE IF authorization.scheme # "Bearer "
    THEN Failure(401, <<"Invalid authorization header format", "">>)
    ELSE LET supabase_uid == get_supabase_uid_from_token(authorization.token)
         IN  IF supabase_uid = "JWTError"
             THEN Failure(401, <<"Invalid or expired token", "">>)
             ELSE IF supabase_uid \notin DOMAIN profs
             THEN Failure(404, <<"User profile not found. Please complete registration.", "">>)
             ELSE [status |-> 200, detail |-> <<"", "">>, user |-> supabase_uid]

LAST_LOGIN_THROTTLE_SECONDS == 3600

\* `for tenant_id in changed_tenant_ids: invalidate_tenant_permission_cache(...)`
\* Faulty variant: the entries of the claimed tenants are left in the cache
InvalidateEach_Skipped(c, supabase_uid, tenant_ids) == c

RECURSIVE InvalidateEach(_, _, _)
InvalidateEach(c, supabase_uid, tenant_ids) ==
    IF tenant_ids = {} THEN c
    ELSE LET tenant_id == CHOOSE x \in tenant_ids : TRUE
         IN  InvalidateEach(invalidate_tenant_permission_cache(c, supabase_uid, tenant_id),
                            supabase_uid, tenant_ids \ {tenant_id})

\* Faulty variant: the activation check lets a super-admin through
CurrentUserClaimed_SuperAdminExempt(user, claimed, c, t) ==
    LET invalidated == InvalidateEach(c, user, claimed.changed_tenant_ids)
        last == claimed.profiles[user].last_login_at
        logged == IF last = NONE \/ t - last > LAST_LOGIN_THROTTLE_SECONDS
                  THEN [claimed.profiles EXCEPT ![user].last_login_at = t]
                  ELSE claimed.profiles
    IN  IF ~claimed.profiles[user].is_active /\ ~claimed.profiles[user].is_super_admin
        THEN [status |-> 403, detail |-> <<"Account pending admin approval", "">>,
              user |-> NULL, changed_tenant_ids |-> claimed.changed_tenant_ids,
              profiles |-> claimed.profiles, memberships |-> claimed.memberships,
              invitations |-> claimed.invitations, cache |-> invalidated]
        ELSE [status |-> 200, detail |-> <<"", "">>, user |-> user,
              changed_tenant_ids |-> claimed.changed_tenant_ids,
              profiles |-> logged, memberships |-> claimed.memberships,
              invitations |-> claimed.invitations, cache |-> invalidated]

\* get_current_user after the invitations were claimed and committed: the cache
\* invalidation of the changed tenants, the activity check and the last-login write
CurrentUserClaimed(user, claimed, c, t) ==
    LET invalidated == InvalidateEach(c, user, claimed.changed_tenant_ids)
        last == claimed.profiles[user].last_login_at
        logged == IF last = NONE \/ t - last > LAST_LOGIN_THROTTLE_SECONDS
                  THEN [claimed.profiles EXCEPT ![user].last_login_at = t]
                  ELSE claimed.profiles
    IN  IF ~claimed.profiles[user].is_active
        THEN [status |-> 403, detail |-> <<"Account pending admin approval", "">>,
              user |-> NULL, changed_tenant_ids |-> claimed.changed_tenant_ids,
              profiles |-> claimed.profiles, memberships |-> claimed.memberships,
              invitations |-> claimed.invitations, cache |-> invalidated]
        ELSE [status |-> 200, detail |-> <<"", "">>, user |-> user,
              changed_tenant_ids |-> claimed.changed_tenant_ids,
              profiles |-> logged, memberships |-> claimed.memberships,
              invitations |-> claimed.invitations, cache |-> invalidated]

\* Faulty variant: the activation check comes before the claim
CurrentUserResolved_ActivationFirst(resolved, profs, roles, mems, invs, c, t) ==
    IF resolved.status # 200
    THEN [status |-> resolved.status, detail |-> resolved.detail, user |-> NULL,
          changed_tenant_ids |-> {}, profiles |-> profs, memberships |-> mems,
          invitations |-> invs, cache |-> c]
    ELSE IF ~profs[resolved.user].is_active
    THEN [status |-> 403, detail |-> <<"Account pending admin approval", "">>, user |-> NULL,
          changed_tenant_ids |-> {}, profiles |-> profs, memberships |-> mems,
          invitations |-> invs, cache |-> c]
    ELSE CurrentUserClaimed(
             resolved.user,
             claim_pending_invitations_for_user(profs, roles, mems, invs, resolved.user, t),
             c, t)

\* get_current_user after `user = await _resolve_authenticated_user(...)`
CurrentUserResolved(resolved, profs, roles, mems, invs, c, t) ==
    IF resolved.status # 200
    THEN [status |-> resolved.status, detail |-> resolved.detail, user |-> NULL,
          changed_tenant_ids |-> {}, profiles |-> profs, memberships |-> mems,
          invitations |-> invs, cache |-> c]
    ELSE CurrentUserClaimed(
             resolved.user,
             claim_pending_invitations_for_user(profs, roles, mems, invs, resolved.user, t),
             c, t)

\* get_current_user: the outcome, and the rows and the cache as it leaves them
get_current_user(authorization, profs, roles, mems, invs, c, t) ==
    CurrentUserResolved(_resolve_authenticated_user(authorization, profs),
                        profs, roles, mems, invs, c, t)

\* Faulty variant: the failure of get_current_user is passed on
OptionalOutcome_Reraises(g) == g

\* get_optional_user's `try ... except HTTPException: return None`
OptionalOutcome(g) ==
    [g EXCEPT !.status = 200, !.detail = <<"", "">>,
              !.user = IF g.status = 200 THEN g.user ELSE NULL]

\* get_optional_user: the user or None, and the rows and the cache afterwards
get_optional_user(authorization, profs, roles, mems, invs, c, t) ==
    IF ~authorization.present
    THEN [status |-> 200, detail |-> <<"", "">>, user |-> NULL, changed_tenant_ids |-> {},
          profiles |-> profs, memberships |-> mems, invitations |-> invs, cache |-> c]
    ELSE OptionalOutcome(get_current_user(authorization, profs, roles, mems, invs, c, t))

(***************************************************************************)
(* Guards.                                                                 *)
(***************************************************************************)
\* What a guard hands back: the response, the resolver's part in it, and the
\* rows and the cache as the request leaves them.
GuardOutcome(g, status_code, detail, user, resolver, c) ==
    [status |-> status_code, detail |-> detail, user |-> user,
     effective |-> resolver.permissions, hit |-> resolver.hit,
     computed |-> resolver.computed, prior |-> resolver.prior,
     changed_tenant_ids |-> g.changed_tenant_ids,
     profiles |-> g.profiles, memberships |-> g.memberships,
     invitations |-> g.invitations, cache |-> c]

NoResolver == [permissions |-> {}, hit |-> FALSE, computed |-> FALSE, prior |-> NONE]

\* Faulty variant: no bypass
user_is_super_admin_Never(profs, user) == FALSE

\* `if user.is_super_admin: return user`
user_is_super_admin(profs, user) == profs[user].is_super_admin

\* Faulty variant: the reference is used as it came
ScopeTenantId_Unresolved(tenant_ref) == tenant_ref

\* `_resolve_tenant_scope(db, tenant_id) or tenant_id`
ScopeTenantId(tenant_ref) ==
    IF _resolve_tenant_scope(tenant_ref) # NULL THEN _resolve_tenant_scope(tenant_ref)
    ELSE tenant_ref

\* Faulty variant: pending rows are not filtered out
AcceptedMemberships_AnyRow(mems, supabase_uid, scope_tenant_id) ==
    {m \in mems : /\ m.supabase_uid = supabase_uid
                  /\ tenant_column_filter_for_values(m, scope_tenant_id)}

\* The membership query of both guards
AcceptedMemberships(mems, supabase_uid, scope_tenant_id) ==
    {m \in mems : /\ m.supabase_uid = supabase_uid
                  /\ tenant_column_filter_for_values(m, scope_tenant_id)
                  /\ m.accepted_at # NONE}

\* Faulty variant: a reference that resolves to no tenant is answered 404
NoAccess_NotFound(g, tenant_ref) ==
    IF _resolve_tenant_scope(tenant_ref) = NULL
    THEN GuardOutcome(g, 404, <<"Tenant not found", tenant_ref>>, NULL, NoResolver, g.cache)
    ELSE GuardOutcome(g, 403, <<"No access to tenant", tenant_ref>>, NULL, NoResolver, g.cache)

\* Faulty variant: the detail names the tenant the reference resolved to
NoAccess_NamesTenant(g, tenant_ref) ==
    GuardOutcome(g, 403, <<"No access to tenant", ScopeTenantId(tenant_ref)>>, NULL,
                 NoResolver, g.cache)

\* `if not membership: raise HTTPException(403, f"No access to tenant {tenant_id}")`
NoAccess(g, tenant_ref) ==
    GuardOutcome(g, 403, <<"No access to tenant", tenant_ref>>, NULL, NoResolver, g.cache)

\* require_super_admin after `user: UserProfile = Depends(get_current_user)`
SuperAdminChecked(g) ==
    IF g.status # 200
    THEN GuardOutcome(g, g.status, g.detail, NULL, NoResolver, g.cache)
    ELSE IF ~user_is_super_admin(g.profiles, g.user)
    THEN GuardOutcome(g, 403, <<"Super admin role required", "">>, NULL, NoResolver, g.cache)
    ELSE GuardOutcome(g, 200, <<"", "">>, g.user, NoResolver, g.cache)

\* require_super_admin, with its get_current_user
require_super_admin(authorization, profs, roles, mems, invs, c, t) ==
    SuperAdminChecked(get_current_user(authorization, profs, roles, mems, invs, c, t))

\* check_access after `user: UserProfile = Depends(get_current_user)`
AccessChecked(g, tenant_id) ==
    IF g.status # 200
    THEN GuardOutcome(g, g.status, g.detail, NULL, NoResolver, g.cache)
    ELSE IF user_is_super_admin(g.profiles, g.user)
    THEN GuardOutcome(g, 200, <<"", "">>, g.user, NoResolver, g.cache)
    ELSE IF AcceptedMemberships(g.memberships, g.user, ScopeTenantId(tenant_id)) = {}
    THEN NoAccess(g, tenant_id)
    ELSE GuardOutcome(g, 200, <<"", "">>, g.user, NoResolver, g.cache)

\* require_tenant_access(tenant_id).check_access, with its get_current_user
check_access(tenant_id, authorization, profs, roles, mems, invs, c, t) ==
    AccessChecked(get_current_user(authorization, profs, roles, mems, invs, c, t), tenant_id)

\* check_permission from `effective_permissions = ...` on, for the membership found
PermissionDecided(g, required_permission, membership, eff) ==
    LET cache_key == _permission_cache_key(membership.tenant_id, membership.supabase_uid)
        resolver == [permissions |-> eff.permissions, hit |-> eff.hit, computed |-> TRUE,
                     prior |-> IF cache_key \in DOMAIN g.cache THEN g.cache[cache_key][1]
                               ELSE NONE]
    IN  IF required_permission \notin eff.permissions
        THEN GuardOutcome(g, 403, <<"Permission required:", required_permission>>, NULL,
                          resolver, eff.cache)
        ELSE GuardOutcome(g, 200, <<"", "">>, g.user, resolver, eff.cache)

\* check_permission for the membership the query returned
PermissionResolved(g, required_permission, membership, roles, perms, t) ==
    PermissionDecided(g, required_permission, membership,
                      get_effective_membership_permissions(g.cache, t, roles, perms, membership))

\* Faulty variant: a live cache entry holding the key lets the caller through
\* before the membership is looked up
PermissionChecked_CacheFirst(g, required_permission, x_tenant_id, roles, perms, t) ==
    LET found == AcceptedMemberships(g.memberships, g.user, ScopeTenantId(x_tenant_id))
        cache_key == _permission_cache_key(ScopeTenantId(x_tenant_id), g.user)
    IN  IF g.status # 200
        THEN GuardOutcome(g, g.status, g.detail, NULL, NoResolver, g.cache)
        ELSE IF user_is_super_admin(g.profiles, g.user)
        THEN GuardOutcome(g, 200, <<"", "">>, g.user, NoResolver, g.cache)
        ELSE IF /\ CacheEntryLive(g.cache, cache_key, t)
                /\ required_permission \in g.cache[cache_key][2]
        THEN GuardOutcome(g, 200, <<"", "">>, g.user, NoResolver, g.cache)
        ELSE IF found = {}
        THEN NoAccess(g, x_tenant_id)
        ELSE PermissionResolved(g, required_permission, CHOOSE m \in found : TRUE,
                                roles, perms, t)

\* check_permission after `user: UserProfile = Depends(get_current_user)`
PermissionChecked(g, required_permission, x_tenant_id, roles, perms, t) ==
    LET found == AcceptedMemberships(g.memberships, g.user, ScopeTenantId(x_tenant_id))
    IN  IF g.status # 200
        THEN GuardOutcome(g, g.status, g.detail, NULL, NoResolver, g.cache)
        ELSE IF user_is_super_admin(g.profiles, g.user)
        THEN GuardOutcome(g, 200, <<"", "">>, g.user, NoResolver, g.cache)
        ELSE IF found = {}
        THEN NoAccess(g, x_tenant_id)
        ELSE PermissionResolved(g, required_permission, CHOOSE m \in found : TRUE,
                                roles, perms, t)

\* require_tenant_permission_from_header(permission_key).check_permission, with
\* its get_current_user
check_permission(required_permission, x_tenant_id, authorization, profs, roles, perms, mems, invs, c, t) ==
    PermissionChecked(get_current_user(authorization, profs, roles, mems, invs, c, t),
                      required_permission, x_tenant_id, roles, perms, t)

(***************************************************************************)
(* The admin router's update_tenant (routers/admin_tenants.py).            *)
(***************************************************************************)
ADMIN == <<"a", "d", "m", "i", "n">>

\* `value.strip()` on the texts a request body carries
StripText(value) ==
    CASE value = " Acme " -> "Acme"
      [] value = " T1" -> "T1"
      [] OTHER -> value

\* `value.lower()` on the same texts
LowerText(value) ==
    CASE value = "Acme" -> "acme"
      [] value = "ACME-K" -> "acme-k"
      [] value = "Bad_Id" -> "bad_id"
      [] value = "T1" -> "t1"
      [] OTHER -> value

\* IDENTIFIER_PATTERN.match: lower-case letters, digits and hyphens only
IDENTIFIER_PATTERN(text) == text \notin {"Acme", "ACME-K", "Bad_Id", "bad_id", "T1", ""}

\* _normalize_identifier: the normalised text, or HTTPException 400
_normalize_identifier(value) ==
    LET normalized == LowerText(StripText(value))
    IN  IF normalized = ""
        THEN [raised |-> TRUE, detail |-> "identifier is required", value |-> ""]
        ELSE IF ~IDENTIFIER_PATTERN(normalized)
        THEN [raised |-> TRUE,
              detail |-> "identifier must contain only lowercase letters, numbers, and hyphens",
              value |-> ""]
        ELSE [raised |-> FALSE, detail |-> "", value |-> normalized]

\* _normalize_tenant_id: the canonical text of a UUID, or "" for any other text;
\* t1 and t2 stand for canonical UUIDs, T1 for t1 written in upper case
_normalize_tenant_id(value) ==
    LET normalized == StripText(value)
    IN  IF normalized \in {"t1", "t2", "T1"} THEN LowerText(normalized) ELSE ""

\* _resolve_tenant: <<row>> for the first row the reference filter finds, <<>> for None
_resolve_tenant(rows, tenant_ref) ==
    LET found == {row \in rows : tenant_reference_filter(row, tenant_ref)}
    IN  IF found = {} THEN <<>> ELSE <<CHOOSE row \in found : TRUE>>

_user_is_tenant_admin(mems, user, tenant) ==
    \E m \in mems : /\ m.supabase_uid = user
                    /\ tenant_column_filter_for_values(m, tenant.id)
                    /\ m.accepted_at # NONE
                    /\ m.role = ADMIN

\* Faulty variant: the identifier is not among the restricted fields
restricted_fields_NoIdentifier == {"id", "key_prefix", "name", "active"}

\* `restricted_fields` of update_tenant
restricted_fields == {"id", "identifier", "key_prefix", "name", "active"}

\* `_normalize_tenant_id(v or "") or (v or "").strip()`
RequestedId(value) ==
    IF _normalize_tenant_id(value) # "" THEN _normalize_tenant_id(value) ELSE StripText(value)

\* the assignments of update_tenant to the row it resolved
TenantFieldsWritten(tenant, tenant_data) ==
    [tenant EXCEPT
        !.identifier = IF "identifier" \in DOMAIN tenant_data
                       THEN _normalize_identifier(tenant_data["identifier"]).value ELSE @,
        !.name = IF "name" \in DOMAIN tenant_data THEN tenant_data["name"] ELSE @,
        !.settings = IF "settings" \in DOMAIN tenant_data THEN tenant_data["settings"] ELSE @]

\* what update_tenant answers, and the tenants table as it leaves it
TenantAnswer(g, status_code, detail, rows) ==
    [o |-> GuardOutcome(g, status_code, <<detail, "">>,
                        IF status_code = 200 THEN g.user ELSE NULL, NoResolver, g.cache),
     tenants |-> rows]

\* update_tenant from `_require_tenant_admin_or_super_admin` on, for the row found
TenantUpdated(g, tenant, tenant_data, rows) ==
    LET keys == DOMAIN tenant_data
        super == g.profiles[g.user].is_super_admin
    IN  IF ~super /\ ~_user_is_tenant_admin(g.memberships, g.user, tenant)
        THEN TenantAnswer(g, 403, "Admin role required for this tenant", rows)
        ELSE IF ~super /\ keys \cap restricted_fields # {}
        THEN TenantAnswer(g, 403, "Only super admins can update these fields", rows)
        ELSE IF "id" \in keys /\ RequestedId(tenant_data["id"]) # tenant.id
        THEN TenantAnswer(g, 400, "tenant id is immutable", rows)
        ELSE IF "key_prefix" \in keys /\ _normalize_identifier(tenant_data["key_prefix"]).raised
        THEN TenantAnswer(g, 400, _normalize_identifier(tenant_data["key_prefix"]).detail, rows)
        ELSE IF /\ "key_prefix" \in keys
                /\ _normalize_identifier(tenant_data["key_prefix"]).value # tenant.key_prefix
        THEN TenantAnswer(g, 400, "key_prefix is immutable", rows)
        ELSE IF "identifier" \in keys /\ _normalize_identifier(tenant_data["identifier"]).raised
        THEN TenantAnswer(g, 400, _normalize_identifier(tenant_data["identifier"]).detail, rows)
        ELSE IF /\ "identifier" \in keys
                /\ \E other \in rows :
                      /\ other.identifier = _normalize_identifier(tenant_data["identifier"]).value
                      /\ other.id # tenant.id
        THEN TenantAnswer(g, 409, "Tenant identifier already exists", rows)
        ELSE TenantAnswer(g, 200, "",
                          (rows \ {tenant}) \cup {TenantFieldsWritten(tenant, tenant_data)})

\* update_tenant after `user: UserProfile = Depends(get_current_user)`
update_tenant(tenant_id, tenant_data, g, rows) ==
    IF g.status # 200
    THEN TenantAnswer(g, g.status, g.detail[1], rows)
    ELSE IF _resolve_tenant(rows, tenant_id) = <<>>
    THEN TenantAnswer(g, 404, "Tenant not found", rows)
    ELSE TenantUpdated(g, _resolve_tenant(rows, tenant_id)[1], tenant_data, rows)

(***************************************************************************)
(* Bounds and inputs.                                                      *)
(***************************************************************************)
MaxTicks == 2
MaxDbChanges == 1
MaxInvitations == 2

\* the clock advances by half the cache lifetime
TickSeconds == RBAC_PERMISSION_CACHE_TTL_SECONDS \div 2

\* tenant references a request may carry: an id, a key_prefix, an identifier, and
\* one that names no tenant
TenantRefs == {"t1", "acme-k", "beta", "nope"}

\* permission keys the routes guard with
GuardedPermissions == {"image.tag", "assets.read"}

\* rows the admin layer may give a role
RoleRowMenu ==
    { {},
      AllowRows({"image.view"}),
      AllowRows({"assets.read", "assets.write"}) \cup DenyRows({"image.tag"}) }

\* authorization headers the guarded routes are called with
GuardHeaders == {NoHeader, Bearer("tok-u1"), Bearer("tok-u2")}

\* invitations the admin layer may create: email, tenant, role
InvitationMenu ==
    { <<<<"a", "l", "@", "x">>, "t1", <<"E", "d", "i", "t", "o", "r", " ">>>>,
      <<<<"A", "L", "@", "x">>, "t1", USER>>,
      <<<<"a", "l", "@", "x">>, "t2", USER>>,
      <<<<"B", "O", "@", "x">>, "t2", <<"E", "d", "i", "t", "o", "r", " ">>>> }

(***************************************************************************)
(* The outcome of the request being answered.                              *)
(***************************************************************************)
Idle ==
    [op |-> "idle", subject |-> NULL, ref |-> NULL, perm |-> NULL, status |-> 0,
     detail |-> <<"", "">>, effective |-> {}, hit |-> FALSE, computed |-> FALSE,
     prior |-> NONE, changed_tenant_ids |-> {}, before |-> <<>>, wrote |-> FALSE,
     auth |-> NoHeader, user |-> NULL, pre |-> <<>>, requests |-> 0]

\* the rows, the cache and the key state a request found
Snapshot ==
    [profiles |-> profiles, memberships |-> memberships, invitations |-> invitations,
     cache |-> cache, jwks |-> jwks]

\* the claimer's writes between the rows as they are and as a request leaves them
ClaimWrote(profs, mems, invs) ==
    \/ mems # memberships
    \/ invs # invitations
    \/ \E u \in DOMAIN profs : profs[u].is_active # profiles[u].is_active

\* no update_tenant request is being answered
NoTenantRequest == [body |-> <<>>, before |-> {}]

\* the response of a request that went through get_current_user
Answered(op, authorization, ref, perm, o) ==
    [Idle EXCEPT
        !.op = op, !.subject = _resolve_authenticated_user(authorization, profiles).user,
        !.ref = ref, !.perm = perm, !.status = o.status, !.detail = o.detail,
        !.effective = o.effective, !.hit = o.hit, !.computed = o.computed,
        !.prior = o.prior, !.changed_tenant_ids = o.changed_tenant_ids,
        !.wrote = ClaimWrote(o.profiles, o.memberships, o.invitations),
        !.auth = authorization, !.user = o.user, !.pre = Snapshot,
        !.requests = JwksRequests(authorization)]

(***************************************************************************)
(* Spec: requests, the clock and the admin layer's changes.                *)
(***************************************************************************)
Membership(supabase_uid, tenant_id, tenant_role_id, role, accepted_at) ==
    [supabase_uid |-> supabase_uid, tenant_id |-> tenant_id,
     tenant_role_id |-> tenant_role_id, role |-> role,
     invited_by |-> NULL, invited_at |-> NONE, accepted_at |-> accepted_at]

\* u1 is an accepted editor of t1; in t2 an administrator whose profile is not
\* among Users has added u1, and u1 has not accepted
SeededMemberships ==
    { Membership("u1", "t1", "r1", EDITOR, 0),
      [Membership("u1", "t2", "r3", EDITOR, NONE) EXCEPT !.invited_by = "u9"] }

InitExpandIdle ==
    /\ allowed = {}
    /\ denied = {}
    /\ expanded = {}
    /\ changed = FALSE
    /\ epc = "idle"

InitRows ==
    /\ now = 0
    /\ tenant_roles = [r \in RoleIds |->
                          [tenant_id |-> RoleTenant(r), role_key |-> RoleKey(r), is_active |-> TRUE]]
    /\ role_permissions = [r \in RoleIds |-> ROLE_MAPPINGS(RoleKey(r))]
    /\ invitations = <<>>
    /\ cache = <<>>
    /\ db_changes = 0
    /\ resp = Idle
    /\ jwks = JwksAtImport
    /\ jwks_endpoint = [reachable |-> TRUE, keys |-> {"k1"}]
    /\ tenants = {TenantAsCreated(row) : row \in TenantRows}
    /\ tenant_req = NoTenantRequest
    /\ inflight = <<>>

Profile(u, is_active, is_super_admin) ==
    [email |-> UserEmail(u), is_active |-> is_active, is_super_admin |-> is_super_admin,
     last_login_at |-> 0]

Init ==
    /\ InitExpandIdle
    /\ InitRows
    /\ memberships = SeededMemberships
    /\ \E active \in [Users -> BOOLEAN] :
          profiles = [u \in Users |-> Profile(u, active[u], u = "u2")]

\* the response leaves; the process is ready for the next request
Return ==
    /\ resp.op # "idle"
    /\ resp' = Idle
    /\ tenant_req' = NoTenantRequest
    /\ UNCHANGED <<now, dbVars, cache, db_changes, expandVars, jwksVars, tenants, inflight>>

Tick ==
    /\ resp.op = "idle"
    /\ now + TickSeconds <= MaxTicks * TickSeconds
    /\ now' = now + TickSeconds
    /\ UNCHANGED <<dbVars, cache, db_changes, resp, expandVars, jwksVars, tenantVars, inflight>>

\* a request that went through get_current_user leaves its rows, the cache and
\* its response
Responded(op, authorization, ref, perm, o) ==
    /\ profiles' = o.profiles
    /\ memberships' = o.memberships
    /\ invitations' = o.invitations
    /\ cache' = o.cache
    /\ resp' = Answered(op, authorization, ref, perm, o)
    /\ jwks' = JwksAfter(authorization)
    /\ UNCHANGED <<now, tenant_roles, role_permissions, db_changes, expandVars, jwks_endpoint,
                   inflight>>

\* the same for a request that leaves the tenants table alone
Respond(op, authorization, ref, perm, o) ==
    /\ Responded(op, authorization, ref, perm, o)
    /\ UNCHANGED tenantVars

\* update_tenant answered: the rows of its get_current_user and the tenants table
TenantResponded(authorization, tenant_id, tenant_data, u) ==
    /\ Responded("update_tenant", authorization, tenant_id, NULL, u.o)
    /\ tenants' = u.tenants
    /\ tenant_req' = [body |-> tenant_data, before |-> tenants]

\* PUT /api/v1/admin/tenants/{tenant_id}
UpdateTenant(authorization, tenant_id, tenant_data) ==
    /\ resp.op = "idle"
    /\ TenantResponded(authorization, tenant_id, tenant_data,
                       update_tenant(tenant_id, tenant_data,
                                     get_current_user(authorization, profiles, tenant_roles,
                                                      memberships, invitations, cache, now),
                                     tenants))

RequireTenantPermission(authorization, x_tenant_id, permission_key) ==
    /\ resp.op = "idle"
    /\ Respond("permission", authorization, x_tenant_id, permission_key,
               check_permission(permission_key, x_tenant_id, authorization, profiles,
                                tenant_roles, role_permissions, memberships, invitations,
                                cache, now))

RequireTenantAccess(authorization, tenant_id) ==
    /\ resp.op = "idle"
    /\ Respond("access", authorization, tenant_id, NULL,
               check_access(tenant_id, authorization, profiles, tenant_roles, memberships,
                            invitations, cache, now))

RequireSuperAdmin(authorization) ==
    /\ resp.op = "idle"
    /\ Respond("super_admin", authorization, NULL, NULL,
               require_super_admin(authorization, profiles, tenant_roles, memberships,
                                   invitations, cache, now))

\* claim_pending_invitations_for_user called on a profile, then committed
ClaimPendingInvitations(supabase_uid) ==
    LET claimed == claim_pending_invitations_for_user(profiles, tenant_roles, memberships,
                                                      invitations, supabase_uid, now)
    IN  /\ resp.op = "idle"
        /\ profiles' = claimed.profiles
        /\ memberships' = claimed.memberships
        /\ invitations' = claimed.invitations
        /\ resp' = [Idle EXCEPT
                       !.op = "claim", !.subject = supabase_uid, !.status = 200,
                       !.changed_tenant_ids = claimed.changed_tenant_ids,
                       !.wrote = ClaimWrote(claimed.profiles, claimed.memberships,
                                            claimed.invitations),
                       !.pre = Snapshot]
        /\ UNCHANGED <<now, tenant_roles, role_permissions, cache, db_changes, expandVars, jwksVars, tenantVars, inflight>>

\* the cache-invalidation hook, called by the admin layer
InvalidateTenantPermissionCache(supabase_uid, tenant_id) ==
    /\ resp.op = "idle"
    /\ cache' = invalidate_tenant_permission_cache(cache, supabase_uid, tenant_id)
    /\ resp' = [Idle EXCEPT !.op = "invalidate", !.subject = supabase_uid, !.ref = tenant_id,
                            !.before = cache]
    /\ UNCHANGED <<now, dbVars, db_changes, expandVars, jwksVars, tenantVars, inflight>>

\* The admin layer's writes
AdminSetRolePermissions(role_id, rows) ==
    /\ resp.op = "idle"
    /\ db_changes < MaxDbChanges
    /\ role_permissions[role_id] # rows
    /\ role_permissions' = [role_permissions EXCEPT ![role_id] = rows]
    /\ db_changes' = db_changes + 1
    /\ UNCHANGED <<now, profiles, tenant_roles, memberships, invitations, cache, resp,
                   expandVars, jwksVars, tenantVars, inflight>>

AdminSetRoleActive(role_id, is_active) ==
    /\ resp.op = "idle"
    /\ db_changes < MaxDbChanges
    /\ tenant_roles[role_id].is_active # is_active
    /\ tenant_roles' = [tenant_roles EXCEPT ![role_id].is_active = is_active]
    /\ db_changes' = db_changes + 1
    /\ UNCHANGED <<now, profiles, role_permissions, memberships, invitations, cache, resp,
                   expandVars, jwksVars, tenantVars, inflight>>

\* user_tenants row of (supabase_uid, tenant_id) deleted (rows = {}) or written
AdminWriteMembership(supabase_uid, tenant_id, rows) ==
    LET found == {m \in memberships : m.supabase_uid = supabase_uid /\ m.tenant_id = tenant_id}
    IN  /\ resp.op = "idle"
        /\ db_changes < MaxDbChanges
        /\ found # rows
        /\ memberships' = (memberships \ found) \cup rows
        /\ db_changes' = db_changes + 1
        /\ UNCHANGED <<now, profiles, tenant_roles, role_permissions, invitations, cache, resp,
                       expandVars, jwksVars, tenantVars, inflight>>

\* an invitation outlives one step of the clock and expires at the second
InvitationLifetime == 2 * TickSeconds

AdminCreateInvitation(email, tenant_id, role) ==
    /\ resp.op = "idle"
    /\ Len(invitations) < MaxInvitations
    /\ invitations' = Append(invitations,
                             [email |-> email, tenant_id |-> tenant_id, role |-> role,
                              invited_by |-> "u2", expires_at |-> now + InvitationLifetime,
                              accepted_at |-> NONE, created_at |-> now])
    /\ UNCHANGED <<now, profiles, tenant_roles, role_permissions, memberships, cache,
                   db_changes, resp, expandVars, jwksVars, tenantVars, inflight>>

\* what a route guarded by get_current_user alone hands back
CurrentUserOutcome(g) == GuardOutcome(g, g.status, g.detail, g.user, NoResolver, g.cache)

\* get_current_user as the dependency of a route without a tenant guard
GetCurrentUser(authorization) ==
    /\ resp.op = "idle"
    /\ Respond("current_user", authorization, NULL, NULL,
               CurrentUserOutcome(get_current_user(authorization, profiles, tenant_roles,
                                                   memberships, invitations, cache, now)))

\* get_optional_user as the dependency of a route
GetOptionalUser(authorization) ==
    /\ resp.op = "idle"
    /\ Respond("optional_user", authorization, NULL, NULL,
               CurrentUserOutcome(get_optional_user(authorization, profiles, tenant_roles,
                                                    memberships, invitations, cache, now)))

\* the clock advances by a little more than half the age a key set may reach
KeyTickSeconds == JWKS_MAX_AGE_SECONDS \div 2 + 1

KeyTick ==
    /\ resp.op = "idle"
    /\ now + KeyTickSeconds <= MaxTicks * KeyTickSeconds
    /\ now' = now + KeyTickSeconds
    /\ UNCHANGED <<dbVars, cache, db_changes, resp, expandVars, jwksVars, tenantVars, inflight>>

\* the key source rotates its signing key
EndpointRotates ==
    /\ resp.op = "idle"
    /\ jwks_endpoint.keys = {"k1"}
    /\ jwks_endpoint' = [jwks_endpoint EXCEPT !.keys = {"k2"}]
    /\ UNCHANGED <<now, dbVars, cache, db_changes, resp, expandVars, jwks, tenantVars, inflight>>

\* the key source stops or starts answering
EndpointTurns(reachable) ==
    /\ resp.op = "idle"
    /\ jwks_endpoint.reachable # reachable
    /\ jwks_endpoint' = [jwks_endpoint EXCEPT !.reachable = reachable]
    /\ UNCHANGED <<now, dbVars, cache, db_changes, resp, expandVars, jwks, tenantVars, inflight>>

\* clear_jwks_cache called in the process
ClearJwksCache ==
    /\ resp.op = "idle"
    /\ jwks.cache # {}
    /\ jwks' = clear_jwks_cache(jwks)
    /\ UNCHANGED <<now, dbVars, cache, db_changes, resp, expandVars, jwks_endpoint, tenantVars, inflight>>

\* the rows the admin layer may write for a membership: none, pending with the
\* tenant's editor role, accepted without a role link, accepted with the other
\* tenant's role
MembershipWrites(supabase_uid, tenant_id) ==
    { {},
      {Membership(supabase_uid, tenant_id, IF tenant_id = "t1" THEN "r1" ELSE "r3", EDITOR, NONE)},
      {Membership(supabase_uid, tenant_id, NULL, USER, now)},
      {Membership(supabase_uid, tenant_id, IF tenant_id = "t1" THEN "r3" ELSE "r1", EDITOR, now)} }

Next ==
    \/ Return
    \/ Tick
    \/ \E authorization \in GuardHeaders, ref \in TenantRefs, key \in GuardedPermissions :
          RequireTenantPermission(authorization, ref, key)
    \/ \E authorization \in GuardHeaders, ref \in TenantRefs :
          RequireTenantAccess(authorization, ref)
    \/ \E t \in Tenants : InvalidateTenantPermissionCache("u1", t)
    \/ \E rows \in RoleRowMenu : AdminSetRolePermissions("r1", rows)
    \/ \E r \in {"r1", "r3"}, b \in BOOLEAN : AdminSetRoleActive(r, b)
    \/ \E t \in Tenants : \E rows \in MembershipWrites("u1", t) :
          AdminWriteMembership("u1", t, rows)

Spec == Init /\ [][Next]_vars

(***************************************************************************)
(* SpecClaim: invitations created, claimed and expiring.                   *)
(***************************************************************************)
NextClaim ==
    \/ Return
    \/ Tick
    \/ \E u \in Users : ClaimPendingInvitations(u)
    \/ \E authorization \in AuthHeaders : GetCurrentUser(authorization)
    \/ \E inv \in InvitationMenu : AdminCreateInvitation(inv[1], inv[2], inv[3])

SpecClaim == Init /\ [][NextClaim]_vars

(***************************************************************************)
(* SpecAuth: get_current_user on every kind of header, while invitations   *)
(* are created and a permission check fills the cache.                     *)
(***************************************************************************)
NextAuth ==
    \/ Return
    \/ Tick
    \/ \E authorization \in AuthHeaders : GetCurrentUser(authorization)
    \/ \E ref \in Tenants : RequireTenantPermission(Bearer("tok-u1"), ref, "assets.read")
    \/ \E inv \in InvitationMenu : AdminCreateInvitation(inv[1], inv[2], inv[3])

SpecAuth == Init /\ [][NextAuth]_vars

(***************************************************************************)
(* SpecKeys: authentication while the key source rotates its key, fails    *)
(* and recovers, over more than the age a key set may reach.               *)
(***************************************************************************)
KeyHeaders == AuthHeaders \cup {Bearer("tok-u1-k2")}

NextKeys ==
    \/ Return
    \/ KeyTick
    \/ \E authorization \in KeyHeaders : GetCurrentUser(authorization)
    \/ \E authorization \in KeyHeaders : GetOptionalUser(authorization)
    \/ EndpointRotates
    \/ \E reachable \in BOOLEAN : EndpointTurns(reachable)
    \/ ClearJwksCache

SpecKeys == Init /\ [][NextKeys]_vars

(***************************************************************************)
(* SpecTenants: the tenants table under update_tenant, called by a tenant  *)
(* admin (u1 in t1) and by a super-admin (u2).                             *)
(***************************************************************************)
TenantDataKeys == {"id", "identifier", "key_prefix", "settings"}

\* values a request body may carry under a key
TenantDataValues(key) ==
    CASE key = "id" -> {" T1", "t2"}
      [] key = "identifier" -> {" Acme ", "beta", "new-id", "Bad_Id"}
      [] key = "key_prefix" -> {"ACME-K", "new-id"}
      [] key = "settings" -> {"{x}"}

\* request bodies: any subset of the keys, each with one of its values
TenantBodies ==
    UNION { {b \in [keys -> UNION {TenantDataValues(k) : k \in keys}] :
                \A k \in keys : b[k] \in TenantDataValues(k)} :
            keys \in SUBSET TenantDataKeys }

TenantMemberships ==
    { Membership("u1", "t1", "r1", ADMIN, 0), Membership("u1", "t2", "r3", EDITOR, 0) }

InitTenants ==
    /\ InitExpandIdle
    /\ InitRows
    /\ memberships = TenantMemberships
    /\ profiles = [u \in Users |-> Profile(u, TRUE, u = "u2")]

NextTenants ==
    \/ Return
    \/ \E authorization \in GuardHeaders, ref \in {"acme", "t2", "nope"}, body \in TenantBodies :
          UpdateTenant(authorization, ref, body)

SpecTenants == InitTenants /\ [][NextTenants]_vars

(***************************************************************************)
(* SpecClaimRace: two requests whose claims interleave at the database.    *)
(* A request reads the rows (the claimer's queries), and later flushes and *)
(* commits what it wrote in its session; the database is PostgreSQL at     *)
(* READ COMMITTED with the constraint uq_user_tenant_membership.           *)
(***************************************************************************)
Calls == {"a", "b"}

MembershipColumns == {"tenant_role_id", "role", "invited_by", "invited_at", "accepted_at"}

\* the UPDATE the session emits for a row it loaded: the columns it changed
UpdatedRow(current, loaded, written) ==
    [f \in DOMAIN current |->
        IF f \in MembershipColumns /\ written[f] # loaded[f] THEN written[f] ELSE current[f]]

RowsOf(mems, supabase_uid, tenant_id) ==
    {m \in mems : m.supabase_uid = supabase_uid /\ m.tenant_id = tenant_id}

\* the INSERT of a (user, tenant) another transaction has committed meanwhile
\* violates uq_user_tenant_membership; the UPDATE of a row that is gone matches
\* no row: the flush raises and the session rolls back
FlushRaises(call) ==
    \E T \in call.claimed.changed_tenant_ids :
        (RowsOf(call.read.memberships, call.user, T) = {})
            # (RowsOf(memberships, call.user, T) = {})

\* the row of (user, T) after the flush
FlushedRow(call, T) ==
    LET written == CHOOSE m \in RowsOf(call.claimed.memberships, call.user, T) : TRUE
    IN  IF RowsOf(call.read.memberships, call.user, T) = {}
        THEN written
        ELSE UpdatedRow(CHOOSE m \in RowsOf(memberships, call.user, T) : TRUE,
                        CHOOSE m \in RowsOf(call.read.memberships, call.user, T) : TRUE,
                        written)

\* the invitations the call marked accepted in its session
ClaimedInvitations(call) ==
    {i \in 1..Len(call.read.invitations) :
        call.claimed.invitations[i].accepted_at # call.read.invitations[i].accepted_at}

\* get_current_user up to the claimer's queries: the rows are read and the
\* writes are pending in the session
ClaimReads(id, supabase_uid) ==
    /\ id \notin DOMAIN inflight
    /\ inflight' = (id :> [pc |-> "read", user |-> supabase_uid, t |-> now,
                           read |-> [profiles |-> profiles, memberships |-> memberships,
                                     invitations |-> invitations],
                           claimed |-> claim_pending_invitations_for_user(
                                           profiles, tenant_roles, memberships, invitations,
                                           supabase_uid, now)]) @@ inflight
    /\ UNCHANGED <<now, dbVars, cache, db_changes, resp, expandVars, jwksVars, tenantVars>>

\* the flush and `db.commit()`, then the cache invalidation of the changed tenants
ClaimCommitted(id, call) ==
    IF FlushRaises(call)
    THEN /\ inflight' = [inflight EXCEPT ![id].pc = "failed"]
         /\ UNCHANGED <<profiles, memberships, invitations, cache>>
    ELSE /\ inflight' = [inflight EXCEPT ![id].pc = "committed"]
         /\ memberships' =
               {m \in memberships : ~(m.supabase_uid = call.user
                                      /\ m.tenant_id \in call.claimed.changed_tenant_ids)}
                   \cup {FlushedRow(call, T) : T \in call.claimed.changed_tenant_ids}
         /\ invitations' =
               [i \in 1..Len(invitations) |->
                   IF i \in ClaimedInvitations(call)
                   THEN [invitations[i] EXCEPT !.accepted_at = call.t]
                   ELSE invitations[i]]
         /\ profiles' =
               IF call.claimed.profiles[call.user].is_active
                      # call.read.profiles[call.user].is_active
               THEN [profiles EXCEPT ![call.user].is_active = TRUE]
               ELSE profiles
         /\ cache' = InvalidateEach(cache, call.user, call.claimed.changed_tenant_ids)

ClaimCommits(id) ==
    /\ id \in DOMAIN inflight
    /\ inflight[id].pc = "read"
    /\ ClaimCommitted(id, inflight[id])
    /\ UNCHANGED <<now, tenant_roles, role_permissions, db_changes, resp, expandVars, jwksVars,
                   tenantVars>>

\* the request is answered and its session closed
CallReturns(id) ==
    /\ id \in DOMAIN inflight
    /\ inflight[id].pc # "read"
    /\ inflight' = [c \in DOMAIN inflight \ {id} |-> inflight[c]]
    /\ UNCHANGED <<now, dbVars, cache, db_changes, resp, expandVars, jwksVars, tenantVars>>

\* an invitation to a tenant the user has a membership in (u1, t1) and one to a
\* tenant the user has none in (u2, t2)
RaceInvitationMenu ==
    { <<<<"a", "l", "@", "x">>, "t1", USER>>,
      <<<<"B", "O", "@", "x">>, "t2", <<"E", "d", "i", "t", "o", "r", " ">>>> }

NextClaimRace ==
    \/ Tick
    \/ \E inv \in RaceInvitationMenu : AdminCreateInvitation(inv[1], inv[2], inv[3])
    \/ \E id \in Calls, u \in Users : ClaimReads(id, u)
    \/ \E id \in Calls : ClaimCommits(id)
    \/ \E id \in Calls : CallReturns(id)

InitClaimRace ==
    /\ InitExpandIdle
    /\ InitRows
    /\ memberships = SeededMemberships
    /\ profiles = [u \in Users |-> Profile(u, FALSE, u = "u2")]

SpecClaimRace == InitClaimRace /\ [][NextClaimRace]_vars

(***************************************************************************)
(* SpecResolveRace: resolver calls of concurrent requests, and a role or   *)
(* membership change with its invalidation, in one process.  The process   *)
(* runs its requests as coroutines of one event loop; check_permission and *)
(* get_effective_membership_permissions call the database synchronously,   *)
(* so from the cache lookup to the cache write nothing else runs.          *)
(***************************************************************************)
CacheMemberships ==
    { Membership("u1", "t1", "r1", EDITOR, 0), Membership("u1", "t2", "r3", EDITOR, 0),
      Membership("u2", "t1", "r2", USER, 0), Membership("u2", "t2", NULL, USER, 0) }

\* Faulty variant: the resolver's query is a point where other requests run
ResolverHoldsLoop_Yields(calls) == FALSE

\* some call is between the resolver's rows query and its cache write
ResolverHoldsLoop(calls) == \E id \in DOMAIN calls : calls[id].pc = "loaded"

\* the key whose rows the admin layer changes and invalidates
RaceKey == _permission_cache_key("t1", "u1")

\* the number of changes whose invalidation has returned
Settled == IF "admin" \in DOMAIN inflight THEN db_changes - 1 ELSE db_changes

\* check_permission of user `supabase_uid` for tenant T up to the resolver's
\* rows query: a live entry is returned, otherwise the rows are read
ResolverLoads(id, supabase_uid, T) ==
    LET found == AcceptedMemberships(memberships, supabase_uid, T)
        membership == CHOOSE m \in found : TRUE
        cache_key == _permission_cache_key(membership.tenant_id, membership.supabase_uid)
    IN  /\ id \notin DOMAIN inflight
        /\ ~ResolverHoldsLoop(inflight)
        /\ found # {}
        /\ inflight' =
              (id :> IF CacheEntryLive(cache, cache_key, now)
                     THEN [pc |-> "returned", key |-> cache_key, t |-> now, hit |-> TRUE,
                           settled |-> Settled, permissions |-> cache[cache_key][2]]
                     ELSE [pc |-> "loaded", key |-> cache_key, t |-> now, hit |-> FALSE,
                           settled |-> Settled,
                           permissions |-> _load_permissions_from_role_mapping(
                                               tenant_roles, role_permissions, membership)])
                  @@ inflight
        /\ UNCHANGED <<now, dbVars, cache, db_changes, resp, expandVars, jwksVars, tenantVars>>

\* `_tenant_permission_cache[cache_key] = (now + TTL, set(permissions))`
ResolverInstalls(id) ==
    /\ id \in DOMAIN inflight
    /\ inflight[id].pc = "loaded"
    /\ cache' = (inflight[id].key :>
                    <<inflight[id].t + RBAC_PERMISSION_CACHE_TTL_SECONDS, inflight[id].permissions>>)
                    @@ cache
    /\ inflight' = [inflight EXCEPT ![id].pc = "returned"]
    /\ UNCHANGED <<now, dbVars, db_changes, resp, expandVars, jwksVars, tenantVars>>

\* the request is answered
ResolverReturns(id) ==
    /\ id \in DOMAIN inflight
    /\ inflight[id].pc = "returned"
    /\ inflight' = [c \in DOMAIN inflight \ {id} |-> inflight[c]]
    /\ UNCHANGED <<now, dbVars, cache, db_changes, resp, expandVars, jwksVars, tenantVars>>

\* an admin handler commits new rows for the role of the membership
AdminCommitsRole(rows) ==
    /\ "admin" \notin DOMAIN inflight
    /\ ~ResolverHoldsLoop(inflight)
    /\ db_changes < MaxDbChanges
    /\ role_permissions["r1"] # rows
    /\ role_permissions' = [role_permissions EXCEPT !["r1"] = rows]
    /\ db_changes' = db_changes + 1
    /\ inflight' = ("admin" :> [pc |-> "committed"]) @@ inflight
    /\ UNCHANGED <<now, profiles, tenant_roles, memberships, invitations, cache, resp,
                   expandVars, jwksVars, tenantVars>>

\* an admin handler commits another role for the membership
AdminCommitsMembership(tenant_role_id) ==
    LET found == RowsOf(memberships, "u1", "t1")
        membership == CHOOSE m \in found : TRUE
    IN  /\ "admin" \notin DOMAIN inflight
        /\ ~ResolverHoldsLoop(inflight)
        /\ db_changes < MaxDbChanges
        /\ found # {}
        /\ membership.tenant_role_id # tenant_role_id
        /\ memberships' = (memberships \ found)
                              \cup {[membership EXCEPT !.tenant_role_id = tenant_role_id,
                                                       !.role = RoleKey(tenant_role_id)]}
        /\ db_changes' = db_changes + 1
        /\ inflight' = ("admin" :> [pc |-> "committed"]) @@ inflight
        /\ UNCHANGED <<now, profiles, tenant_roles, role_permissions, invitations, cache, resp,
                       expandVars, jwksVars, tenantVars>>

\* the handler then calls invalidate_tenant_permission_cache(user, tenant)
AdminInvalidates ==
    /\ "admin" \in DOMAIN inflight
    /\ ~ResolverHoldsLoop(inflight)
    /\ cache' = invalidate_tenant_permission_cache(cache, RaceKey[2], RaceKey[1])
    /\ inflight' = [c \in DOMAIN inflight \ {"admin"} |-> inflight[c]]
    /\ UNCHANGED <<now, dbVars, db_changes, resp, expandVars, jwksVars, tenantVars>>

NextResolveRace ==
    \/ Tick
    \/ \E id \in Calls, T \in Tenants : ResolverLoads(id, "u1", T)
    \/ \E id \in Calls : ResolverInstalls(id)
    \/ \E id \in Calls : ResolverReturns(id)
    \/ \E rows \in RoleRowMenu : AdminCommitsRole(rows)
    \/ \E r \in {"r1", "r2"} : AdminCommitsMembership(r)
    \/ AdminInvalidates

InitResolveRace ==
    /\ InitExpandIdle
    /\ InitRows
    /\ memberships = CacheMemberships
    /\ profiles = [u \in Users |-> Profile(u, TRUE, FALSE)]

SpecResolveRace == InitResolveRace /\ [][NextResolveRace]_vars

(***************************************************************************)
(* SpecSuper: the three guards called by active and inactive profiles, a   *)
(* super-admin among them, with and without an invitation to claim.        *)
(***************************************************************************)
NextSuper ==
    \/ Return
    \/ Tick
    \/ \E authorization \in GuardHeaders : RequireSuperAdmin(authorization)
    \/ \E authorization \in GuardHeaders, ref \in {"t1", "beta"} :
          RequireTenantAccess(authorization, ref)
    \/ \E authorization \in GuardHeaders, ref \in {"t1", "beta"} :
          RequireTenantPermission(authorization, ref, "assets.read")
    \/ \E inv \in RaceInvitationMenu : AdminCreateInvitation(inv[1], inv[2], inv[3])

SpecSuper == Init /\ [][NextSuper]_vars

(***************************************************************************)
(* SpecCache: the cache filled by permission checks and invalidated.       *)
(***************************************************************************)
InitCache ==
    /\ InitExpandIdle
    /\ InitRows
    /\ memberships = CacheMemberships
    /\ profiles = [u \in Users |-> Profile(u, TRUE, FALSE)]

NextCache ==
    \/ Return
    \/ Tick
    \/ \E u \in Users, ref \in {"acme", "t2"} :
          RequireTenantPermission(Bearer(IF u = "u1" THEN "tok-u1" ELSE "tok-u2"), ref,
                                  "assets.read")
    \/ \E u \in Users \cup {NULL}, t \in Tenants \cup {NULL} :
          InvalidateTenantPermissionCache(u, t)

SpecCache == InitCache /\ [][NextCache]_vars

(***************************************************************************)
(* SpecExpand: _expand_permissions run pass by pass on every pair of       *)
(* allow and deny sets.                                                    *)
(***************************************************************************)
InitExpand ==
    /\ InitRows
    /\ memberships = SeededMemberships
    /\ profiles = [u \in Users |-> Profile(u, TRUE, FALSE)]
    /\ allowed \in SUBSET PermissionKeys
    /\ denied \in SUBSET PermissionKeys
    /\ expanded = allowed
    /\ changed = TRUE
    /\ epc = "loop"

ExpandLoopPass ==
    /\ epc = "loop"
    /\ changed
    /\ expanded' = ExpandPass(expanded, denied)
    /\ changed' = PassChanged(expanded, denied)
    /\ UNCHANGED <<allowed, denied, epc, sysVars>>

ExpandReturn ==
    /\ epc = "loop"
    /\ ~changed
    /\ expanded' = ExpandResult(expanded, denied)
    /\ epc' = "done"
    /\ UNCHANGED <<allowed, denied, changed, sysVars>>

NextExpand == ExpandLoopPass \/ ExpandReturn

SpecExpand == InitExpand /\ [][NextExpand]_vars

(***************************************************************************)
(* Properties of _expand_permissions (SpecExpand).  When epc = "done",     *)
(* `expanded` holds the value returned for (allowed, denied).              *)
(***************************************************************************)
\* Keys some key of `keys` implies directly
ImpliedBy(keys) == UNION {PERMISSION_IMPLICATIONS(k) : k \in keys}

\* C1: whatever the allow rows and the deny rows, the set the resolver returns
\* holds no denied key, also when the key is implied by an allowed key.
C1_DenyOverridesAllow ==
    epc = "done" => expanded \cap denied = {}

\* C1 witness: a returned set for a deny row on a key that is not allowed itself
\* but implied by an allowed key
C1_Witness ==
    /\ epc = "done"
    /\ \E k \in denied : k \notin allowed /\ k \in ImpliedBy(allowed)

\* C2: without assets.write among the allow rows, the returned set holds a write
\* key (assets.write or one of the four canonical write keys) only if that key is
\* an allow row itself; a role with the single row (image.view, allow) resolves
\* to image.view and assets.read, without image.tag and image.rate.
C2_NoWriteEscalation ==
    (epc = "done" /\ "assets.write" \notin allowed) =>
        /\ \A k \in WriteCanonicalKeys \cup {"assets.write"} : k \in expanded => k \in allowed
        /\ (allowed = {"image.view"} /\ denied = {}) =>
              /\ {"image.view", "assets.read"} \subseteq expanded
              /\ "image.tag" \notin expanded
              /\ "image.rate" \notin expanded

\* C2 witness: the role whose only row is (image.view, allow), resolved
C2_Witness ==
    /\ epc = "done"
    /\ allowed = {"image.view"}
    /\ denied = {}
    /\ "assets.read" \in expanded

\* C7: the four allow rows of the seeded editor mapping, with no deny row, resolve
\* to exactly the nine keys.
C7_EditorResolvesToNineKeys ==
    (/\ epc = "done"
     /\ AllowRows(allowed) = ROLE_MAPPINGS(EDITOR)
     /\ denied = {}) =>
        expanded = {"assets.read", "assets.write", "keywords.read", "keywords.write",
                    "image.view", "image.rate", "image.tag", "image.note.edit",
                    "image.variant.manage"}

\* C7 witness: the editor mapping resolved
C7_Witness ==
    /\ epc = "done"
    /\ allowed = {"assets.read", "assets.write", "keywords.read", "keywords.write"}
    /\ denied = {}
    /\ Cardinality(expanded) > Cardinality(allowed)

(***************************************************************************)
(* Properties of the guards and the resolver (Spec).  In a state whose     *)
(* resp.op is not "idle" the request has just been handled: the rows, the  *)
(* cache and the clock are as the request left them.                       *)
(***************************************************************************)
\* The tenant a reference names by id, identifier or key_prefix (NULL if none)
ReferencedTenant(ref) ==
    IF \E row \in TenantRows : ref \in {row.id, row.identifier, row.key_prefix}
    THEN (CHOOSE row \in TenantRows : ref \in {row.id, row.identifier, row.key_prefix}).id
    ELSE NULL

MembershipRows(supabase_uid, tenant_id) ==
    {m \in memberships : m.supabase_uid = supabase_uid /\ m.tenant_id = tenant_id}

HasAcceptedMembership(supabase_uid, tenant_id) ==
    \E m \in MembershipRows(supabase_uid, tenant_id) : m.accepted_at # NONE

GuardAnswered == resp.op \in {"access", "permission"} /\ resp.subject # NULL

\* C3: for an active caller who is no super-admin, the permission guard returns
\* the user exactly when the caller has an accepted membership in the referenced
\* tenant and the key is in the effective set returned for it (the set the cache
\* holds for the key afterwards); without accepted membership it answers 403 'No
\* access to tenant <ref>', with the key absent 403 'Permission required: P'.
C3_PermissionGuardDecision ==
    (/\ resp.op = "permission"
     /\ resp.subject # NULL
     /\ profiles[resp.subject].is_active
     /\ ~profiles[resp.subject].is_super_admin) =>
        LET tenant == ReferencedTenant(resp.ref)
            member == HasAcceptedMembership(resp.subject, tenant)
        IN  /\ resp.status = 200 <=> (member /\ resp.perm \in resp.effective)
            /\ member => /\ resp.computed
                         /\ <<tenant, resp.subject>> \in DOMAIN cache
                         /\ cache[<<tenant, resp.subject>>][2] = resp.effective
            /\ ~member => /\ resp.status = 403
                          /\ resp.detail = <<"No access to tenant", resp.ref>>
            /\ (member /\ resp.perm \notin resp.effective) =>
                  /\ resp.status = 403
                  /\ resp.detail = <<"Permission required:", resp.perm>>

\* C3 witness: a member refused for a key that is not in the effective set
C3_Witness ==
    /\ resp.op = "permission"
    /\ resp.subject # NULL
    /\ HasAcceptedMembership(resp.subject, ReferencedTenant(resp.ref))
    /\ resp.status = 403
    /\ resp.perm \notin resp.effective

\* C4: a caller who is no super-admin and whose membership row in the referenced
\* tenant has accepted_at null is answered 403 by both guards.
C4_PendingMembershipRejected ==
    (/\ GuardAnswered
     /\ ~profiles[resp.subject].is_super_admin
     /\ \E m \in MembershipRows(resp.subject, ReferencedTenant(resp.ref)) :
           m.accepted_at = NONE) =>
        resp.status = 403

\* C4 witness: the permission guard refusing a pending member whose role has an
\* allow row for the key while a live cache entry of (tenant, user) holds the key
C4_Witness ==
    /\ resp.op = "permission"
    /\ resp.subject # NULL
    /\ resp.status = 403
    /\ LET tenant == ReferencedTenant(resp.ref)
           key == <<tenant, resp.subject>>
       IN  /\ \E m \in MembershipRows(resp.subject, tenant) :
                 /\ m.accepted_at = NONE
                 /\ m.tenant_role_id # NULL
                 /\ <<resp.perm, "allow">> \in role_permissions[m.tenant_role_id]
           /\ key \in DOMAIN cache
           /\ cache[key][1] > now
           /\ resp.perm \in cache[key][2]

\* C5: an active super-admin passes both guards, whatever the tenant reference
\* and the key.
C5_SuperAdminBypass ==
    (/\ GuardAnswered
     /\ profiles[resp.subject].is_super_admin
     /\ profiles[resp.subject].is_active) =>
        resp.status = 200

\* C5 witness: a super-admin without any membership row let through by the
\* permission guard for a reference that names no tenant
C5_Witness ==
    /\ resp.op = "permission"
    /\ resp.subject # NULL
    /\ profiles[resp.subject].is_super_admin
    /\ {m \in memberships : m.supabase_uid = resp.subject} = {}
    /\ ReferencedTenant(resp.ref) = NULL
    /\ resp.status = 200

\* The accepted membership a permission check resolved
ResolvedMembership ==
    CHOOSE m \in MembershipRows(resp.subject, ReferencedTenant(resp.ref)) : m.accepted_at # NONE

ResolverMissed == resp.op = "permission" /\ resp.computed /\ ~resp.hit

\* C6: on a cache miss the resolver returns the empty set for a membership
\* without role link, with an inactive role, or with a role of another tenant.
C6_UnlinkedInactiveForeignRoleGrantsNothing ==
    ResolverMissed =>
        LET m == ResolvedMembership
        IN  (\/ m.tenant_role_id = NULL
             \/ ~tenant_roles[m.tenant_role_id].is_active
             \/ tenant_roles[m.tenant_role_id].tenant_id # m.tenant_id) =>
                resp.effective = {}

\* C6 witness: a miss for a membership linked to an active role of another
\* tenant that has permission rows
C6_Witness ==
    /\ ResolverMissed
    /\ LET m == ResolvedMembership
       IN  /\ m.tenant_role_id # NULL
           /\ tenant_roles[m.tenant_role_id].is_active
           /\ tenant_roles[m.tenant_role_id].tenant_id # m.tenant_id
           /\ role_permissions[m.tenant_role_id] # {}

\* C8: the resolver answers from the cache exactly while the clock is strictly
\* before the entry's expiry; otherwise it returns what the rows give now and
\* stores it with expiry now + 30; an answer from the cache leaves the entry.
C8_CacheTtl ==
    (resp.op = "permission" /\ resp.computed) =>
        LET m == ResolvedMembership
            key == <<m.tenant_id, m.supabase_uid>>
        IN  /\ resp.hit <=> (resp.prior # NONE /\ now < resp.prior)
            /\ resp.hit => cache[key] = <<resp.prior, resp.effective>>
            /\ ~resp.hit =>
                  /\ resp.effective =
                        _load_permissions_from_role_mapping(tenant_roles, role_permissions, m)
                  /\ cache[key] = <<now + 30, resp.effective>>

\* C8 witness: at the very second an entry expires, after the role's rows were
\* changed, the resolver recomputes and returns what the new rows give
C8_Witness ==
    /\ ResolverMissed
    /\ resp.prior = now
    /\ role_permissions["r1"] = AllowRows({"image.view"})
    /\ ResolvedMembership.tenant_role_id = "r1"
    /\ resp.effective = {"image.view", "assets.read"}

(***************************************************************************)
(* Properties of invalidation (SpecCache).                                 *)
(***************************************************************************)
\* C9: invalidate_tenant_permission_cache removes exactly the entries whose
\* tenant is the given tenant (if one is given) and whose user is the given user
\* (if one is given), and leaves every other entry as it was; with both given
\* at most one entry goes, with neither the cache is empty.
C9_InvalidationScope ==
    resp.op = "invalidate" =>
        LET named(key) == /\ resp.ref # NULL => key[1] = resp.ref
                          /\ resp.subject # NULL => key[2] = resp.subject
        IN  /\ DOMAIN cache = {key \in DOMAIN resp.before : ~named(key)}
            /\ \A key \in DOMAIN cache : cache[key] = resp.before[key]
            /\ (resp.ref # NULL /\ resp.subject # NULL) =>
                  Cardinality(DOMAIN resp.before \ DOMAIN cache) <= 1
            /\ (resp.ref = NULL /\ resp.subject = NULL) => DOMAIN cache = {}

\* C9 witness: with only a tenant given, that tenant's entries of two users are
\* gone while the same users' entries of the other tenant remain
C9_Witness ==
    /\ resp.op = "invalidate"
    /\ resp.ref = "t1"
    /\ resp.subject = NULL
    /\ DOMAIN resp.before = Tenants \X Users
    /\ DOMAIN cache = {"t2"} \X Users

(***************************************************************************)
(* Properties of the claimer (SpecClaim).                                  *)
(***************************************************************************)
\* clock values from now on
LaterTimes == {now + k * TickSeconds : k \in 0..MaxTicks}

\* C10: in the state a claim for a user leaves behind, the user has at most one
\* membership per tenant, every tenant reported as changed has an accepted
\* membership of the user, and a second claim for the same user, at the same or
\* any later clock value, returns the empty set and changes no row.
C10_ClaimIdempotent ==
    (resp.op \in {"claim", "current_user"} /\ resp.subject # NULL) =>
        /\ \A t \in Tenants : Cardinality(MembershipRows(resp.subject, t)) <= 1
        /\ \A t \in resp.changed_tenant_ids : HasAcceptedMembership(resp.subject, t)
        /\ resp.wrote <=> resp.changed_tenant_ids # {}
        /\ \A t \in LaterTimes :
              LET second == claim_pending_invitations_for_user(
                                profiles, tenant_roles, memberships, invitations,
                                resp.subject, t)
              IN  /\ second.changed_tenant_ids = {}
                  /\ second.memberships = memberships
                  /\ second.invitations = invitations
                  /\ second.profiles = profiles

\* C10 witness: a first claim that created a membership and reported its tenant
C10_Witness ==
    /\ resp.op = "claim"
    /\ resp.changed_tenant_ids # {}
    /\ resp.wrote
    /\ \E i \in 1..Len(invitations) : invitations[i].accepted_at = now

(***************************************************************************)
(* The claimer's effects (SpecClaim).  resp.pre holds the rows the request *)
(* found; the clock does not move while a request is handled.              *)
(***************************************************************************)
ClaimAnswered == resp.op \in {"claim", "current_user"} /\ resp.subject # NULL

\* the invitations to tenant_id that were claimable for the subject when the
\* request came: same email up to case and the profile's surrounding blanks,
\* not accepted, expiring later than now
ClaimableBefore(tenant_id) ==
    {i \in 1..Len(resp.pre.invitations) :
        LET invitation == resp.pre.invitations[i]
        IN  /\ invitation.tenant_id = tenant_id
            /\ Lower(invitation.email) = Lower(Strip(resp.pre.profiles[resp.subject].email))
            /\ invitation.accepted_at = NONE
            /\ invitation.expires_at > now}

MembershipRowsBefore(tenant_id) ==
    {m \in resp.pre.memberships : m.supabase_uid = resp.subject /\ m.tenant_id = tenant_id}

\* the role text in trimmed lower case
TrimmedLower(role) ==
    CASE role \in {<<"E", "d", "i", "t", "o", "r", " ">>, EDITOR} -> EDITOR
      [] role \in {USER} -> USER

\* the membership carries the role of the invitation and the link to the
\* tenant's role of that key (no link when the tenant has no such role)
CarriesInvitationRole(m, invitation) ==
    LET role_ids == {r \in DOMAIN tenant_roles :
                        /\ tenant_roles[r].tenant_id = invitation.tenant_id
                        /\ tenant_roles[r].role_key = TrimmedLower(invitation.role)}
    IN  /\ m.role = TrimmedLower(invitation.role)
        /\ IF role_ids = {} THEN m.tenant_role_id = NULL ELSE m.tenant_role_id \in role_ids

\* C11: a user without membership in T and with one claimable invitation to T
\* has, after the claim, exactly one membership in T, accepted now, with the
\* invitation's role in trimmed lower case; the invitation is accepted, the
\* user is active and T is reported as changed.
C11_ClaimCreatesMembership ==
    ClaimAnswered =>
        \A T \in Tenants :
            (MembershipRowsBefore(T) = {} /\ Cardinality(ClaimableBefore(T)) = 1) =>
                LET i == CHOOSE i \in ClaimableBefore(T) : TRUE
                IN  /\ Cardinality(MembershipRows(resp.subject, T)) = 1
                    /\ \A m \in MembershipRows(resp.subject, T) :
                          /\ m.accepted_at = now
                          /\ CarriesInvitationRole(m, resp.pre.invitations[i])
                    /\ invitations[i].accepted_at = now
                    /\ profiles[resp.subject].is_active
                    /\ T \in resp.changed_tenant_ids

\* C11 witness: an inactive user without any membership claimed an invitation
\* whose role is stored as "Editor " and is now an active editor of the tenant
C11_Witness ==
    /\ resp.op = "claim"
    /\ ~resp.pre.profiles[resp.subject].is_active
    /\ {m \in resp.pre.memberships : m.supabase_uid = resp.subject} = {}
    /\ resp.changed_tenant_ids = {"t2"}
    /\ \E m \in MembershipRows(resp.subject, "t2") : m.role = EDITOR /\ m.accepted_at = now
    /\ profiles[resp.subject].is_active

\* C12: a user who already has a membership in T and claims invitations to T
\* keeps one membership row in T, which now carries the role and the role link
\* of the invitation (of the latest one, when several are claimed), whatever
\* its role was; the invitations are accepted and T is reported as changed.
C12_ClaimReplacesRole ==
    ClaimAnswered =>
        \A T \in Tenants :
            (MembershipRowsBefore(T) # {} /\ ClaimableBefore(T) # {}) =>
                LET last == CHOOSE i \in ClaimableBefore(T) : \A j \in ClaimableBefore(T) : j <= i
                IN  /\ Cardinality(MembershipRows(resp.subject, T)) = 1
                    /\ \A m \in MembershipRows(resp.subject, T) :
                          /\ CarriesInvitationRole(m, resp.pre.invitations[last])
                          /\ m.accepted_at # NONE
                    /\ \A i \in ClaimableBefore(T) : invitations[i].accepted_at = now
                    /\ T \in resp.changed_tenant_ids

\* C12 witness: an accepted editor membership became a user membership by the
\* claim of an invitation with role user
C12_Witness ==
    /\ resp.op = "claim"
    /\ resp.changed_tenant_ids = {"t1"}
    /\ \E before \in MembershipRowsBefore("t1") :
          /\ before.role = EDITOR
          /\ before.accepted_at # NONE
          /\ MembershipRows(resp.subject, "t1") =
                {[before EXCEPT !.role = USER, !.tenant_role_id = "r2",
                                !.invited_by = "u2", !.invited_at = 0]}

\* the email of the subject's profile and of a stored invitation are the same
\* up to letter case and the blanks around the profile's email
SameEmail(invitation) ==
    Lower(invitation.email) = Lower(Strip(resp.pre.profiles[resp.subject].email))

\* pending and not expired when the request came
Open(invitation) == invitation.accepted_at = NONE /\ invitation.expires_at > now

\* C13: an open invitation is claimed exactly when its email equals the
\* profile's email up to letter case on both sides and blanks around the
\* profile's email; claimed means accepted now, with an accepted membership of
\* the user in its tenant.
C13_EmailMatchIgnoresCaseAndBlanks ==
    ClaimAnswered =>
        \A i \in 1..Len(resp.pre.invitations) :
            LET invitation == resp.pre.invitations[i]
            IN  Open(invitation) =>
                    IF SameEmail(invitation)
                    THEN /\ invitations[i].accepted_at = now
                         /\ HasAcceptedMembership(resp.subject, invitation.tenant_id)
                    ELSE invitations[i] = invitation

\* C13 witness: the user with the lower-case email bo@x has just claimed the
\* invitation stored as BO@x, and the invitation for al@x was claimed by the
\* user whose profile email is " Al@X"
C13_Witness ==
    /\ resp.op = "claim"
    /\ resp.subject = "u2"
    /\ resp.pre.profiles["u2"].email = <<"b", "o", "@", "x">>
    /\ resp.pre.profiles["u1"].email = <<" ", "A", "l", "@", "X">>
    /\ \E i, j \in 1..Len(invitations) :
          /\ invitations[i].email = <<"B", "O", "@", "x">>
          /\ resp.pre.invitations[i].accepted_at = NONE
          /\ invitations[i].accepted_at = now
          /\ invitations[j].email = <<"a", "l", "@", "x">>
          /\ invitations[j].accepted_at # NONE
          /\ \E m \in memberships :
                /\ m.supabase_uid = "u1"
                /\ m.tenant_id = invitations[j].tenant_id
                /\ m.invited_by = "u2"

\* C14: an invitation that was accepted before, or whose expires_at is not
\* later than now, is left as it was and contributes no tenant id; memberships
\* in tenants without a claimable invitation and those of other users are left
\* as they were; with nothing claimable (or a blank profile email) the claimer
\* returns the empty set and changes no row and no is_active flag.
C14_OnlyOpenInvitationsAreClaimed ==
    ClaimAnswered =>
        /\ Len(invitations) = Len(resp.pre.invitations)
        /\ \A i \in 1..Len(resp.pre.invitations) :
              ~Open(resp.pre.invitations[i]) => invitations[i] = resp.pre.invitations[i]
        /\ resp.changed_tenant_ids = {T \in Tenants : ClaimableBefore(T) # {}}
        /\ \A T \in Tenants :
              ClaimableBefore(T) = {} => MembershipRows(resp.subject, T) = MembershipRowsBefore(T)
        /\ {m \in memberships : m.supabase_uid # resp.subject}
              = {m \in resp.pre.memberships : m.supabase_uid # resp.subject}
        /\ (\A T \in Tenants : ClaimableBefore(T) = {}) =>
              /\ resp.changed_tenant_ids = {}
              /\ memberships = resp.pre.memberships
              /\ invitations = resp.pre.invitations
              /\ \A u \in Users : profiles[u].is_active = resp.pre.profiles[u].is_active
        /\ LET blank == claim_pending_invitations_for_user(
                            [profiles EXCEPT ![resp.subject].email = <<" ">>],
                            tenant_roles, memberships, invitations, resp.subject, now)
           IN  /\ blank.changed_tenant_ids = {}
               /\ blank.memberships = memberships
               /\ blank.invitations = invitations
               /\ blank.profiles[resp.subject].is_active = profiles[resp.subject].is_active

\* C14 witness: a claim at the very second a pending invitation for the user's
\* email expires: nothing is returned and nothing is written
C14_Witness ==
    /\ resp.op = "claim"
    /\ resp.changed_tenant_ids = {}
    /\ ~resp.wrote
    /\ ~profiles[resp.subject].is_active
    /\ \E i \in 1..Len(invitations) :
          /\ SameEmail(invitations[i])
          /\ invitations[i].accepted_at = NONE
          /\ invitations[i].expires_at = now

(***************************************************************************)
(* get_current_user's failure exits (SpecAuth).                            *)
(***************************************************************************)
\* the verifier rejects the token: it does not decode, or no key set was
\* obtained, or the key set lacks the token's key
TokenRejected(token) ==
    \/ TokenSub(token) = NULL
    \/ jwks.memo = <<>>
    \/ TokenKid(token) \notin jwks.memo[1]

\* the rows and the permission cache are as the request found them
NothingWritten ==
    /\ profiles = resp.pre.profiles
    /\ memberships = resp.pre.memberships
    /\ invitations = resp.pre.invitations
    /\ cache = resp.pre.cache

\* C15: get_current_user answers 401 without a header, 401 for a header that
\* does not start with "Bearer ", 401 for a token the verifier rejects and 404
\* for a verified subject without profile; in each of these cases it claims no
\* invitation, changes no cache entry and writes no row.
C15_EarlyFailuresStopTheRequest ==
    resp.op = "current_user" =>
        LET a == resp.auth
            bearer == a.present /\ a.scheme = "Bearer "
        IN  /\ ~a.present =>
                  resp.status = 401 /\ resp.detail[1] = "Authorization header required"
            /\ (a.present /\ ~bearer) =>
                  resp.status = 401 /\ resp.detail[1] = "Invalid authorization header format"
            /\ (bearer /\ TokenRejected(a.token)) =>
                  resp.status = 401 /\ resp.detail[1] = "Invalid or expired token"
            /\ (bearer /\ ~TokenRejected(a.token) /\ TokenSub(a.token) \notin Users) =>
                  resp.status = 404
            /\ resp.status \in {401, 404} =>
                  /\ resp.user = NULL
                  /\ resp.changed_tenant_ids = {}
                  /\ NothingWritten

\* C15 witness: 404 for a verified token without profile while an invitation
\* is open and the permission cache holds a live entry
C15_Witness ==
    /\ resp.op = "current_user"
    /\ resp.status = 404
    /\ resp.auth = Bearer("tok-ghost")
    /\ \E i \in 1..Len(invitations) : Open(invitations[i])
    /\ \E key \in DOMAIN cache : cache[key][1] > now

(***************************************************************************)
(* Optional authentication and the key source (C16 .. C18).                *)
(***************************************************************************)
AuthAnswered == resp.op \in {"current_user", "optional_user"}

BearerRequest == resp.auth.present /\ resp.auth.scheme = "Bearer "

\* what get_current_user answers to the same header in the state the request left
CurrentUserAgain ==
    get_current_user(resp.auth, profiles, tenant_roles, memberships, invitations, cache, now)

\* C16: get_optional_user never raises for an authentication failure: it returns
\* None when the header is absent and when the header is malformed, the token is
\* rejected, the key source cannot be reached, the profile is missing or the
\* profile is inactive; otherwise it returns the user get_current_user returns.
C16_OptionalUserNeverRaises ==
    resp.op = "optional_user" =>
        LET a == resp.auth
            failure == \/ ~BearerRequest
                       \/ TokenRejected(a.token)
                       \/ TokenSub(a.token) \notin Users
                       \/ ~profiles[TokenSub(a.token)].is_active
        IN  /\ resp.status = 200
            /\ ~a.present => (resp.user = NULL /\ NothingWritten /\ jwks = resp.pre.jwks)
            /\ failure => resp.user = NULL
            /\ ~failure => resp.user = TokenSub(a.token)
            /\ resp.user # NULL <=> CurrentUserAgain.status = 200
            /\ resp.user # NULL => resp.user = CurrentUserAgain.user

\* C16 witness: None for a well-formed token while the key source is unreachable
C16_Witness ==
    /\ resp.op = "optional_user"
    /\ resp.auth = Bearer("tok-u1")
    /\ ~jwks_endpoint.reachable
    /\ jwks.memo = <<>>
    /\ profiles["u1"].is_active
    /\ resp.user = NULL
    /\ resp.status = 200

\* C17: once the key set held by the process is more than one hour old it is
\* fetched again, so a token signed with the rotated key is accepted without a
\* restart of the process.
C17_StaleKeySetIsRefetched ==
    (/\ AuthAnswered
     /\ BearerRequest
     /\ jwks_endpoint.reachable
     /\ resp.pre.jwks.cache_time # NONE
     /\ now - resp.pre.jwks.cache_time > JWKS_MAX_AGE_SECONDS)
    => /\ jwks.cache = jwks_endpoint.keys
       /\ jwks.cache_time = now
       /\ ~TokenRejected(resp.auth.token) <=> JwtDecodes(resp.auth.token, jwks_endpoint.keys)

ActiveGuardAnswered == GuardAnswered /\ profiles[resp.subject].is_active

\* C19 as stated: a tenant reference that resolves to no tenant by id,
\* identifier or key prefix is rejected by the tenant guards with 404.
C19_UnresolvedTenantIs404 ==
    (ActiveGuardAnswered /\ ReferencedTenant(resp.ref) = NULL) => resp.status = 404

\* C19 as amended: for a tenant reference that resolves to no tenant the guards
\* look the membership up under the reference as given and answer an active
\* caller who is no super-admin 403 'No access to tenant <reference>', running
\* no permission resolver; a super-admin passes; 404 is never answered.
C19_UnresolvedTenantIsNoAccess ==
    (ActiveGuardAnswered /\ ReferencedTenant(resp.ref) = NULL) =>
        IF profiles[resp.subject].is_super_admin
        THEN resp.status = 200 /\ resp.user = resp.subject
        ELSE /\ resp.status = 403
             /\ resp.detail = <<"No access to tenant", resp.ref>>
             /\ resp.user = NULL
             /\ ~resp.computed

\* C19 witness: an active member of another tenant names a tenant that does
\* not exist and is answered 403
C19_Witness ==
    /\ ActiveGuardAnswered
    /\ resp.subject = "u1"
    /\ HasAcceptedMembership("u1", "t1")
    /\ resp.ref = "nope"
    /\ _resolve_tenant_scope(resp.ref) = NULL
    /\ resp.status = 403

\* the answer of the same guard to the same request, had it named a tenant
\* that does not exist
AnswerForUnknownTenant ==
    IF resp.op = "access"
    THEN check_access("nope", resp.auth, resp.pre.profiles, tenant_roles,
                      resp.pre.memberships, resp.pre.invitations, resp.pre.cache, now)
    ELSE check_permission(resp.perm, "nope", resp.auth, resp.pre.profiles, tenant_roles,
                          role_permissions, resp.pre.memberships, resp.pre.invitations,
                          resp.pre.cache, now)

\* the answer has the status and the reason of `other`, and names no tenant
\* but by the reference the caller gave
SameAnswerAs(other) ==
    /\ resp.status = other.status
    /\ resp.detail[1] = other.detail[1]
    /\ resp.detail[2] \in {"", resp.ref}
    /\ other.detail[2] \in {"", "nope"}
    /\ resp.detail[2] = "" <=> other.detail[2] = ""

\* C20: to a caller who is no super-admin and has no accepted membership in the
\* referenced tenant, a tenant guard gives the answer it gives for a reference
\* to no tenant at all: the same status and the same detail, which names the
\* tenant only by the reference the caller supplied; for an active caller that
\* is 403 'No access to tenant <reference>'.
C20_GuardsDoNotRevealTenants ==
    (/\ GuardAnswered
     /\ ~profiles[resp.subject].is_super_admin
     /\ ~HasAcceptedMembership(resp.subject, ReferencedTenant(resp.ref))) =>
        /\ SameAnswerAs(AnswerForUnknownTenant)
        /\ profiles[resp.subject].is_active =>
              /\ resp.status = 403
              /\ resp.detail = <<"No access to tenant", resp.ref>>

\* C20 witness: an active caller without any row in an existing tenant names it
\* by its identifier and is answered as for a tenant that does not exist
C20_Witness ==
    /\ ActiveGuardAnswered
    /\ resp.subject = "u1"
    /\ resp.ref = "beta"
    /\ ReferencedTenant(resp.ref) = "t2"
    /\ MembershipRows("u1", "t2") = {}
    /\ resp.status = 403
    /\ resp.detail = <<"No access to tenant", "beta">>

(***************************************************************************)
(* The references of a tenant under update_tenant (C21).                   *)
(***************************************************************************)
\* the row of the same tenant as the request found it
TenantBefore(tenant) == CHOOSE b \in tenant_req.before : b.id = tenant.id

ProfileLoaded == resp.op = "current_user" /\ resp.subject # NULL

\* C22: get_current_user claims and commits before it checks activation: an
\* inactive profile with at least one claimable invitation is active after the
\* request and returned by it, the invitations accepted and the membership
\* written; an inactive profile with no claimable invitation is answered 403
\* 'Account pending admin approval' and stays inactive.
C22_ClaimPrecedesActivationCheck ==
    (ProfileLoaded /\ ~resp.pre.profiles[resp.subject].is_active) =>
        LET claimable == UNION {ClaimableBefore(T) : T \in Tenants}
        IN  IF claimable # {}
            THEN /\ resp.status = 200
                 /\ resp.user = resp.subject
                 /\ profiles[resp.subject].is_active
                 /\ resp.changed_tenant_ids = {resp.pre.invitations[i].tenant_id : i \in claimable}
                 /\ \A i \in claimable : invitations[i].accepted_at = now
                 /\ \A T \in resp.changed_tenant_ids : HasAcceptedMembership(resp.subject, T)
            ELSE /\ resp.status = 403
                 /\ resp.detail[1] = "Account pending admin approval"
                 /\ resp.user = NULL
                 /\ ~profiles[resp.subject].is_active
                 /\ NothingWritten

\* C22 witness: an inactive profile is returned as authenticated by the request
\* that claimed its invitation
C22_Witness ==
    /\ ProfileLoaded
    /\ ~resp.pre.profiles[resp.subject].is_active
    /\ resp.status = 200
    /\ resp.user = resp.subject
    /\ resp.changed_tenant_ids # {}
    /\ profiles[resp.subject].is_active

\* the cache keys of the subject in the tenants the request claimed
ClaimedKeys == {<<T, resp.subject>> : T \in resp.changed_tenant_ids}

\* the cache key a permission guard resolves, and may write, itself
GuardedKey ==
    IF resp.op = "permission" THEN {<<ReferencedTenant(resp.ref), resp.subject>>} ELSE {}

\* what the resolver answers for the subject's membership in T, called now
NextPermissions(T) ==
    get_effective_membership_permissions(
        cache, now, tenant_roles, role_permissions,
        CHOOSE m \in MembershipRows(resp.subject, T) : TRUE)

\* C23: when get_current_user claims invitations it removes, after the commit,
\* the cache entries of (T, that user) for every claimed tenant T and no other:
\* entries of other users and of the same user in other tenants are as they
\* were. The user's next permission check in T is therefore computed from the
\* rows, with the role link the claim wrote, and not served from the cache; a
\* permission guard that claimed in its own get_current_user computes likewise
\* (and writes the entry of the tenant it guards).
C23_ClaimInvalidatesClaimedTenants ==
    (resp.op \in {"current_user", "permission"} /\ resp.subject # NULL
        /\ resp.changed_tenant_ids # {}) =>
        /\ \A key \in DOMAIN resp.pre.cache \ (ClaimedKeys \cup GuardedKey) :
              key \in DOMAIN cache /\ cache[key] = resp.pre.cache[key]
        /\ resp.op = "current_user" =>
              /\ DOMAIN cache = DOMAIN resp.pre.cache \ ClaimedKeys
              /\ \A T \in resp.changed_tenant_ids :
                    /\ ~NextPermissions(T).hit
                    /\ NextPermissions(T).permissions =
                          _load_permissions_from_role_mapping(
                              tenant_roles, role_permissions,
                              CHOOSE m \in MembershipRows(resp.subject, T) : TRUE)
        /\ (resp.op = "permission" /\ ReferencedTenant(resp.ref) \in resp.changed_tenant_ids) =>
              /\ resp.computed
              /\ ~resp.hit
              /\ resp.effective =
                    _load_permissions_from_role_mapping(
                        tenant_roles, role_permissions,
                        CHOOSE m \in MembershipRows(resp.subject, ReferencedTenant(resp.ref)) : TRUE)

\* C23 witness: the user holds live entries for two tenants; a claim for one of
\* them changes the role link, removes that entry and leaves the other
C23_Witness ==
    /\ resp.op = "current_user"
    /\ resp.subject = "u1"
    /\ resp.changed_tenant_ids = {"t1"}
    /\ <<"t1", "u1">> \in DOMAIN resp.pre.cache
    /\ resp.pre.cache[<<"t1", "u1">>][1] > now
    /\ <<"t1", "u1">> \notin DOMAIN cache
    /\ <<"t2", "u1">> \in DOMAIN cache
    /\ cache[<<"t2", "u1">>][1] > now
    /\ resp.pre.cache[<<"t1", "u1">>][2] # NextPermissions("t1").permissions

(***************************************************************************)
(* Two claims of the same invitation that interleave (C24).                *)
(***************************************************************************)
\* both calls are of the same user, both read invitation i as pending, and both
\* have ended
RacedOn(a, b, i) ==
    /\ a # b
    /\ inflight[a].user = inflight[b].user
    /\ i \in ClaimedInvitations(inflight[a]) \cap ClaimedInvitations(inflight[b])
    /\ inflight[a].pc # "read"
    /\ inflight[b].pc # "read"

\* C24: when two requests of the same user claim the same pending invitation,
\* both having read it before either commits, the outcome is that of a single
\* claim: one membership for (user, tenant), the invitation accepted, and both
\* requests complete, neither fails.
C24_ConcurrentClaimIsOneClaim ==
    \A a \in DOMAIN inflight, b \in DOMAIN inflight :
        \A i \in 1..Len(invitations) :
            RacedOn(a, b, i) =>
                /\ Cardinality(MembershipRows(inflight[a].user, invitations[i].tenant_id)) = 1
                /\ invitations[i].accepted_at # NONE
                /\ inflight[a].pc = "committed"
                /\ inflight[b].pc = "committed"

(***************************************************************************)
(* Several invitations to one tenant claimed by one call (C25).            *)
(***************************************************************************)
\* the invitations among idxs that no other of them is newer than
Newest(idxs) ==
    {i \in idxs : \A j \in idxs :
        resp.pre.invitations[j].created_at <= resp.pre.invitations[i].created_at}

Oldest(idxs) ==
    {i \in idxs : \A j \in idxs :
        resp.pre.invitations[i].created_at <= resp.pre.invitations[j].created_at}

\* C25: when one call of the claimer finds several pending invitations of the
\* user for the same tenant it takes them oldest first: a membership it has to
\* create is dated by the oldest, and the single membership of (user, tenant)
\* ends with the role and role link of a newest one; every one of them is
\* accepted and the tenant is reported once.
C25_NewestInvitationWins ==
    ClaimAnswered =>
        \A T \in Tenants :
            Cardinality(ClaimableBefore(T)) >= 2 =>
                /\ Cardinality(MembershipRows(resp.subject, T)) = 1
                /\ \A m \in MembershipRows(resp.subject, T) :
                      /\ \E i \in Newest(ClaimableBefore(T)) :
                            CarriesInvitationRole(m, resp.pre.invitations[i])
                      /\ MembershipRowsBefore(T) = {} =>
                            \E i \in Oldest(ClaimableBefore(T)) :
                                m.invited_at = resp.pre.invitations[i].created_at
                /\ \A i \in ClaimableBefore(T) : invitations[i].accepted_at = now
                /\ T \in resp.changed_tenant_ids

\* C25 witness: two invitations to t1 of different age and role were claimed at
\* once, and the membership has the role of the newer
C25_Witness ==
    /\ resp.op = "claim"
    /\ \E i, j \in ClaimableBefore("t1") :
          /\ resp.pre.invitations[i].created_at < resp.pre.invitations[j].created_at
          /\ resp.pre.invitations[i].role = USER
          /\ resp.pre.invitations[j].role = <<"E", "d", "i", "t", "o", "r", " ">>
          /\ \E m \in MembershipRows(resp.subject, "t1") : m.role = EDITOR

(***************************************************************************)
(* What the claimer leaves alone in a membership it updates (C26).         *)
(***************************************************************************)
\* the row of the same user and tenant after the request
RowAfter(before) ==
    {m \in memberships : m.supabase_uid = before.supabase_uid /\ m.tenant_id = before.tenant_id}

\* C26: the claimer keeps a membership's accepted_at, invited_by and invited_at
\* when they are set and fills each of them when it is null and an invitation
\* to the tenant is claimed: accepted_at with the time of the call, the other
\* two from the invitation; accepted_at never goes back to null.
C26_ClaimKeepsSetColumns ==
    ClaimAnswered =>
        \A before \in resp.pre.memberships :
            /\ Cardinality(RowAfter(before)) = 1
            /\ \A m \in RowAfter(before) :
                  /\ before.accepted_at # NONE => m.accepted_at = before.accepted_at
                  /\ before.invited_by # NULL => m.invited_by = before.invited_by
                  /\ before.invited_at # NONE => m.invited_at = before.invited_at
                  /\ (before.supabase_uid = resp.subject /\ ClaimableBefore(before.tenant_id) # {}) =>
                        /\ before.accepted_at = NONE => m.accepted_at = now
                        /\ before.invited_by = NULL =>
                              \E i \in ClaimableBefore(before.tenant_id) :
                                  m.invited_by = resp.pre.invitations[i].invited_by
                        /\ before.invited_at = NONE =>
                              \E i \in ClaimableBefore(before.tenant_id) :
                                  m.invited_at = resp.pre.invitations[i].created_at
                  /\ ~(before.supabase_uid = resp.subject /\ ClaimableBefore(before.tenant_id) # {}) =>
                        m = before

\* C26 witness: one call claimed invitations to t1 and t2 later than the t1
\* membership was accepted; the t1 row kept its acceptance time and the t2 row
\* its inviter, who is not the invitation's, while its two dates were filled
C26_Witness ==
    /\ resp.op = "claim"
    /\ now > 0
    /\ ClaimableBefore("t1") # {}
    /\ \E i \in ClaimableBefore("t2") : resp.pre.invitations[i].invited_by # "u9"
    /\ \E before \in MembershipRowsBefore("t1"), m \in MembershipRows(resp.subject, "t1") :
          before.accepted_at = 0 /\ m.accepted_at = 0
    /\ \E before \in MembershipRowsBefore("t2"), m \in MembershipRows(resp.subject, "t2") :
          /\ before.invited_by = "u9" /\ before.invited_at = NONE /\ before.accepted_at = NONE
          /\ m.invited_by = "u9" /\ m.invited_at # NONE /\ m.accepted_at = now

(***************************************************************************)
(* Termination of _expand_permissions (C27, SpecExpand).                   *)
(***************************************************************************)
\* C27: every pass of the `while changed` loop either adds to `expanded` at
\* least one key that was not in it, removing none, or leaves the flag down and
\* so is the last pass; `expanded` stays within the finite set of keys, so the
\* loop ends, also on the cycle assets.read -> image.view -> assets.read.
C27_EveryPassAddsOrIsLast ==
    (epc = "loop" /\ changed) =>
        /\ expanded \subseteq ExpandPass(expanded, denied)
        /\ ExpandPass(expanded, denied) \subseteq PermissionKeys
        /\ \/ ExpandPass(expanded, denied) # expanded
           \/ ~PassChanged(expanded, denied)

\* C27 witness: the loop has ended on the allow set {assets.read}, having gone
\* round the cycle once
C27_Witness ==
    /\ epc = "done"
    /\ ~changed
    /\ allowed = {"assets.read"}
    /\ denied = {}
    /\ expanded = {"assets.read", "image.view"}

(***************************************************************************)
(* The resolver against a change and its invalidation (C28).               *)
(***************************************************************************)
\* what the resolver computes for the key from the rows as they are now
LoadedNow(key) ==
    LET found == AcceptedMemberships(memberships, key[2], key[1])
    IN  IF found = {} THEN {}
        ELSE _load_permissions_from_role_mapping(tenant_roles, role_permissions,
                                                 CHOOSE m \in found : TRUE)

AnyGuardAnswered == resp.op \in {"super_admin", "access", "permission"} /\ resp.subject # NULL

NothingToClaim == \A T \in Tenants : ClaimableBefore(T) = {}

\* C29: a caller whose profile is inactive and who has no invitation to claim is
\* answered 403 'Account pending admin approval' by require_super_admin, by the
\* tenant access guard and by the permission guard, and stays inactive, also
\* when the profile is a super-admin's.
C29_InactiveSuperAdminIsRejected ==
    (AnyGuardAnswered /\ ~resp.pre.profiles[resp.subject].is_active /\ NothingToClaim) =>
        /\ resp.status = 403
        /\ resp.detail = <<"Account pending admin approval", "">>
        /\ resp.user = NULL
        /\ ~profiles[resp.subject].is_active

\* C29 witness: require_super_admin has rejected an inactive super-admin who had
\* nothing to claim
C29_Witness ==
    /\ resp.op = "super_admin"
    /\ resp.subject # NULL
    /\ resp.pre.profiles[resp.subject].is_super_admin
    /\ ~resp.pre.profiles[resp.subject].is_active
    /\ NothingToClaim
    /\ resp.status = 403

(***************************************************************************)
(* Membership is not cached (C30, Spec).                                   *)
(***************************************************************************)
\* C30: the permission guard looks the membership up in the database on every
\* request: an active caller who is no super-admin and has no accepted
\* membership in the referenced tenant is answered 403 'No access to tenant
\* <ref>' without the resolver being run and with the cache left as it was,
\* also while a live cache entry of (tenant, user) holds the required key.
C30_MembershipIsNotCached ==
    (/\ resp.op = "permission"
     /\ resp.subject # NULL
     /\ resp.pre.profiles[resp.subject].is_active
     /\ ~resp.pre.profiles[resp.subject].is_super_admin
     /\ \A m \in MembershipRows(resp.subject, ReferencedTenant(resp.ref)) :
           m.accepted_at = NONE) =>
        /\ resp.status = 403
        /\ resp.detail = <<"No access to tenant", resp.ref>>
        /\ ~resp.computed
        /\ cache = resp.pre.cache

\* C30 witness: u1's membership in t1 is gone, the entry of (t1, u1) is live and
\* holds the key asked for, and the guard has answered 403
C30_Witness ==
    /\ resp.op = "permission"
    /\ resp.subject = "u1"
    /\ ReferencedTenant(resp.ref) = "t1"
    /\ MembershipRows("u1", "t1") = {}
    /\ <<"t1", "u1">> \in DOMAIN cache
    /\ cache[<<"t1", "u1">>][1] > now
    /\ resp.perm \in cache[<<"t1", "u1">>][2]
    /\ resp.status = 403

====
